---- MODULE Spec2Model ----
(***************************************************************************)
(* datasette-mcp: the request gateway of src/src/datasette_mcp/main.py     *)
(* (courtesy throttle, HTTP GET, response classification) and the config   *)
(* resolver of src/src/datasette_mcp/config.py, as a state machine.        *)
(* The URL builders of main.py (and of the single-file server,             *)
(* src/datasette_mcp_server.py) are pure functions: SpecPure applies them  *)
(* and the resolver to arguments drawn from small sets.                    *)
(*                                                                         *)
(* Tool invocations are asyncio tasks on one event loop: the code between  *)
(* two awaits runs atomically, so each action below is one such stretch.   *)
(* The awaits that really suspend are ctx.info (main.py:290),              *)
(* asyncio.sleep (main.py:70) and client.get (main.py:86).                 *)
(*                                                                         *)
(* Time is counted in ticks of a quarter of a second: the default courtesy *)
(* delay of 0.5 s is 2 ticks.                                              *)
(***************************************************************************)
EXTENDS Integers, Sequences, FiniteSets, TLC

VARIABLES
    phase,              \* main(): "starting", "running" (mcp.run) or "exited" (sys.exit(1))
    Config,             \* main.py:45, the global configuration dict
    now,                \* the reading of time.time()
    last_request_time,  \* main.py:48, dict instance name -> time of the last request
    pc,                 \* per task: where the tool invocation stands
    call,               \* per task: the tool's arguments (operation, instance)
    wake_at,            \* per task: when its asyncio.sleep is over (0 before it and once woken)
    gets,               \* per task: number of HTTP GETs it has issued
    stamp,              \* per task: the set of times it wrote to last_request_time
    before,             \* per task: the tasks whose acquire had returned when its own began
    result,             \* per task: what the tool invocation returned or raised
    response,           \* per task: what client.get gave it (a response, or a failure)
    sent,               \* per task: the headers of the GET it sent (main.py:82, 86)
    probe               \* the last application of a pure function: its arguments and outcome

vars == <<phase, Config, now, last_request_time, pc, call, wake_at, gets, stamp,
          before, result, response, sent, probe>>

------------------------------------------------------------------------------
(* Bounds *)

NumTasks == 2
MaxTime == 4

Tasks == 1..NumTasks

(* Program constants *)

\* main.py:56, the default of 0.5 s
DefaultDelay == 2

------------------------------------------------------------------------------
(* Python dicts are sequences of <<key, value>> pairs (insertion order).   *)

Keys(d) == [i \in 1..Len(d) |-> d[i][1]]

HasKey(d, k) == \E i \in 1..Len(d) : d[i][1] = k

Get(d, k) == d[CHOOSE i \in 1..Len(d) : d[i][1] = k][2]

startswith(s, p) == Len(s) >= Len(p) /\ SubSeq(s, 1, Len(p)) = p

RECURSIVE lstrip(_, _)
lstrip(s, c) ==
    IF Len(s) > 0 /\ SubSeq(s, 1, 1) = c THEN lstrip(Tail(s), c) ELSE s

RECURSIVE rstrip(_, _)
rstrip(s, c) ==
    IF Len(s) > 0 /\ SubSeq(s, Len(s), Len(s)) = c
    THEN rstrip(SubSeq(s, 1, Len(s) - 1), c)
    ELSE s

------------------------------------------------------------------------------
(* Configuration: config.py.  Config is a record whose optional keys may   *)
(* be absent; an instance's configuration likewise.                        *)

InstanceA == [url |-> "https://a.example/", auth_token |-> "secret"]
InstanceB == [url |-> "http://b.example"]

TwoInstances == << <<"a", InstanceA>>, <<"b", InstanceB>> >>

\* The characters of the class [a-zA-Z0-9].
AsciiAlnum ==
    { "a", "b", "c", "d", "e", "f", "g", "h", "i", "j", "k", "l", "m",
      "n", "o", "p", "q", "r", "s", "t", "u", "v", "w", "x", "y", "z",
      "A", "B", "C", "D", "E", "F", "G", "H", "I", "J", "K", "L", "M",
      "N", "O", "P", "Q", "R", "S", "T", "U", "V", "W", "X", "Y", "Z",
      "0", "1", "2", "3", "4", "5", "6", "7", "8", "9" }

\* config.py:173, re.sub(r'[^a-zA-Z0-9]', '_', url)
RECURSIVE sub_non_alnum(_)
sub_non_alnum(s) ==
    IF Len(s) = 0 THEN ""
    ELSE (IF SubSeq(s, 1, 1) \in AsciiAlnum THEN SubSeq(s, 1, 1) ELSE "_")
         \o sub_non_alnum(Tail(s))

\* config.py:176, re.sub(r'_+', '_', escaped)
RECURSIVE sub_underscores(_)
sub_underscores(s) ==
    IF Len(s) = 0 THEN ""
    ELSE IF Len(s) >= 2 /\ SubSeq(s, 1, 2) = "__" THEN sub_underscores(Tail(s))
    ELSE SubSeq(s, 1, 1) \o sub_underscores(Tail(s))

\* config.py:179, escaped.strip('_')
strip(s, c) == rstrip(lstrip(s, c), c)

\* Mutant: runs of underscores are kept.
derive_id_from_url_uncollapsed(url) == "_" \o strip(sub_non_alnum(url), "_")

\* config.py:168-181
derive_id_from_url(url) == "_" \o strip(sub_underscores(sub_non_alnum(url)), "_")

\* What load_config may hand to validate_config.
ConfigCandidates ==
    { [datasette_instances |-> TwoInstances],
      [datasette_instances |-> TwoInstances, courtesy_delay_seconds |-> 0],
      [datasette_instances |-> TwoInstances, courtesy_delay_seconds |-> -1],
      [datasette_instances |-> << <<"a", [url |-> "ftp://a.example"]>> >>],
      [datasette_instances |-> << <<"a", InstanceA>>, <<"b", [url |-> ""]>> >>],
      [datasette_instances |-> << >>],
      [description |-> "no instances"] }

\* config.py:184-207.  An argument that was not given (None) is the empty
\* sequence; the empty string is as false as None.
build_config_from_cli(args) ==
    LET instance_id == IF args.id # << >> /\ args.id[1] # ""
                       THEN args.id[1] ELSE derive_id_from_url(args.url)
        described == args.description # << >> /\ args.description[1] # ""
        instance == IF described
                    THEN [url |-> args.url, description |-> args.description[1]]
                    ELSE [url |-> args.url]
        instances == << <<instance_id, instance>> >>
    IN  CASE described /\ args.courtesy_delay # << >> ->
                [datasette_instances |-> instances,
                 description |-> args.description[1],
                 courtesy_delay_seconds |-> args.courtesy_delay[1]]
          [] described /\ args.courtesy_delay = << >> ->
                [datasette_instances |-> instances,
                 description |-> args.description[1]]
          [] ~described /\ args.courtesy_delay # << >> ->
                [datasette_instances |-> instances,
                 courtesy_delay_seconds |-> args.courtesy_delay[1]]
          [] OTHER -> [datasette_instances |-> instances]

\* Command lines of single-instance mode (main.py:535-556, 589): with and
\* without --id, with a delay of 0 and of 0.25 s, a URL of the wrong
\* scheme, a negative delay.
CliArgs ==
    { [url |-> "https://a.example/", id |-> <<"a">>, description |-> << >>,
       courtesy_delay |-> <<0>>],
      [url |-> "https://a.example/", id |-> <<"a">>, description |-> << >>,
       courtesy_delay |-> <<1>>],
      [url |-> "https://a.example/", id |-> << >>, description |-> <<"single">>,
       courtesy_delay |-> <<0>>],
      [url |-> "ftp://a.example", id |-> << >>, description |-> << >>,
       courtesy_delay |-> << >>],
      [url |-> "http://b.example", id |-> <<"b">>, description |-> << >>,
       courtesy_delay |-> <<-1>>] }

CliConfigs == {build_config_from_cli(args) : args \in CliArgs}

\* Mutant: the URLs of the instances are not looked at.
validate_config_any_url(config) ==
    /\ "datasette_instances" \in DOMAIN config
    /\ Len(config.datasette_instances) # 0
    /\ "courtesy_delay_seconds" \in DOMAIN config
          => config.courtesy_delay_seconds >= 0

\* config.py:93-165.  The candidates are dicts of strings and numbers,
\* so the isinstance tests of lines 105, 115, 125, 135, 139 and 152 pass.
validate_config(config) ==
    LET instances == config.datasette_instances
        url_ok(instance) ==
            /\ "url" \in DOMAIN instance
            /\ instance.url # ""
            /\ \/ startswith(instance.url, "http://")
               \/ startswith(instance.url, "https://")
    IN  /\ "datasette_instances" \in DOMAIN config
        /\ Len(instances) # 0
        /\ \A i \in 1..Len(instances) : url_ok(instances[i][2])
        /\ "courtesy_delay_seconds" \in DOMAIN config
              => config.courtesy_delay_seconds >= 0

\* main.py:56, Config.get('courtesy_delay_seconds', 0.5)
CourtesyDelay ==
    IF "courtesy_delay_seconds" \in DOMAIN Config
    THEN Config.courtesy_delay_seconds
    ELSE DefaultDelay

InstanceNames == Keys(Config.datasette_instances)

\* str(list(keys)) as Python prints a list of strings.
RECURSIVE PyListRepr(_)
PyListRepr(names) ==
    IF Len(names) = 0 THEN ""
    ELSE "'" \o names[1] \o "'"
         \o (IF Len(names) > 1 THEN ", " ELSE "")
         \o PyListRepr(Tail(names))

Raise(type, message) == [kind |-> "raise", type |-> type, message |-> message]

Return(value) == [kind |-> "return", value |-> value]

NoResult == [kind |-> "none"]

NoProbe == [fn |-> ""]

\* Mutant: an unknown name falls back to the first instance.
get_instance_config_first(config, instance) ==
    LET instance_config ==
            IF HasKey(config.datasette_instances, instance)
            THEN Get(config.datasette_instances, instance)
            ELSE config.datasette_instances[1][2]
    IN  Return([url |-> instance_config.url,
                headers |-> IF "auth_token" \in DOMAIN instance_config
                            THEN << <<"Authorization",
                                      "Bearer " \o instance_config.auth_token>> >>
                            ELSE << >>,
                description |-> IF "description" \in DOMAIN instance_config
                                THEN instance_config.description
                                ELSE "",
                name |-> instance])

\* config.py:210-231
get_instance_config(config, instance) ==
    IF ~HasKey(config.datasette_instances, instance)
    THEN Raise("ValueError",
               "Unknown instance '" \o instance \o "'. Available: ["
               \o PyListRepr(Keys(config.datasette_instances)) \o "]")
    ELSE LET instance_config == Get(config.datasette_instances, instance)
         IN  Return([url |-> instance_config.url,
                     headers |-> IF "auth_token" \in DOMAIN instance_config
                                 THEN << <<"Authorization",
                                           "Bearer " \o instance_config.auth_token>> >>
                                 ELSE << >>,
                     description |-> IF "description" \in DOMAIN instance_config
                                     THEN instance_config.description
                                     ELSE "",
                     name |-> instance])

------------------------------------------------------------------------------
(* HTTP responses and JSON.  A JSON value is a tagged record: t is the     *)
(* Python type json.loads gives it, v its content (a dict's content is the *)
(* sequence of its <<key, value>> items).                                  *)

JStr(s) == [t |-> "str", v |-> s]
JInt(n) == [t |-> "int", v |-> n]
JBool(b) == [t |-> "bool", v |-> b]
JList(l) == [t |-> "list", v |-> l]
JDict(items) == [t |-> "dict", v |-> items]

BodyErrorOnly == "{\"error\": \"no such table: foo\"}"
BodyErrorMore == "{\"error\": \"no such table: foo\", \"status\": 400}"
BodyDatabases == "{\"db\": {\"path\": \"/db\"}}"
BodyErrorMiddle == "{\"ok\": false, \"error\": \"bad sql\", \"status\": 400}"
BodyErrorNoString == "{\"error\": 400, \"title\": \"Bad Request\"}"
BodyList == "[1]"
BodyString == "\"bad request\""
BodyHtml == "<html>"

\* response.json() (json.loads of the body): the value, or JSONDecodeError.
JSONDecodeErrorMessage == "Expecting value: line 1 column 1 (char 0)"

json_loads(text) ==
    CASE text = BodyErrorOnly ->
            Return(JDict(<< <<"error", JStr("no such table: foo")>> >>))
      [] text = BodyErrorMore ->
            Return(JDict(<< <<"error", JStr("no such table: foo")>>,
                            <<"status", JInt(400)>> >>))
      [] text = BodyDatabases ->
            Return(JDict(<< <<"db", JDict(<< <<"path", JStr("/db")>> >>)>> >>))
      [] text = BodyErrorMiddle ->
            Return(JDict(<< <<"ok", JBool(FALSE)>>, <<"error", JStr("bad sql")>>,
                            <<"status", JInt(400)>> >>))
      [] text = BodyErrorNoString ->
            Return(JDict(<< <<"error", JInt(400)>>,
                            <<"title", JStr("Bad Request")>> >>))
      [] text = BodyList -> Return(JList(<<JInt(1)>>))
      [] text = BodyString -> Return(JStr("bad request"))
      [] OTHER -> Raise("JSONDecodeError", JSONDecodeErrorMessage)

\* repr() of a JSON value, as an f-string prints a dict of such values.
RECURSIVE PyRepr(_)
PyItemsRepr(items, i) ==
    "'" \o items[i][1] \o "': " \o PyRepr(items[i][2])
      \o (IF i < Len(items) THEN ", " ELSE "")
RECURSIVE PyJoin(_, _)
PyJoin(items, i) ==
    IF i > Len(items) THEN "" ELSE PyItemsRepr(items, i) \o PyJoin(items, i + 1)
RECURSIVE PyJoinList(_, _)
PyJoinList(l, i) ==
    IF i > Len(l) THEN ""
    ELSE PyRepr(l[i]) \o (IF i < Len(l) THEN ", " ELSE "") \o PyJoinList(l, i + 1)
PyRepr(value) ==
    CASE value.t = "str" -> "'" \o value.v \o "'"
      [] value.t = "int" -> ToString(value.v)
      [] value.t = "bool" -> IF value.v THEN "True" ELSE "False"
      [] value.t = "list" -> "[" \o PyJoinList(value.v, 1) \o "]"
      [] value.t = "dict" -> "{" \o PyJoin(value.v, 1) \o "}"

\* main.py:95, {k: v for k, v in error_data.items() if k != "error"}
error_details(items) == SelectSeq(items, LAMBDA kv : kv[1] # "error")

\* Mutant: a body that is no JSON gives the message of the JSONDecodeError.
error_message_400_no_fallback(text) ==
    LET parsed == json_loads(text)
        error_data == parsed.value
        first == IF HasKey(error_data.v, "error")
                 THEN Get(error_data.v, "error")
                 ELSE JStr(text)
        details == error_details(error_data.v)
    IN  IF parsed.kind = "raise" THEN parsed.message
        ELSE IF error_data.t # "dict" THEN text
        ELSE IF Len(error_data.v) > 1 /\ Len(details) > 0
             THEN IF first.t # "str" THEN text
                  ELSE first.v \o " Details: " \o PyRepr(JDict(details))
        ELSE IF first.t = "str" THEN first.v ELSE PyRepr(first)

\* Mutant: the body is never parsed, the raw text is the message.
error_message_400_raw(text) == text

\* main.py:89-101: the message of the ValueError raised for a status 400.
\* The bare except of line 98 catches the JSONDecodeError of line 91, the
\* AttributeError of line 92 (a list has no .get) and the TypeError of
\* line 97 (a value that is no str cannot be extended by a str).
error_message_400(text) ==
    LET parsed == json_loads(text)
        error_data == parsed.value
        first == IF HasKey(error_data.v, "error")
                 THEN Get(error_data.v, "error")
                 ELSE JStr(text)
        details == error_details(error_data.v)
    IN  IF parsed.kind = "raise" THEN text
        ELSE IF error_data.t # "dict" THEN text
        ELSE IF Len(error_data.v) > 1 /\ Len(details) > 0
             THEN IF first.t # "str" THEN text
                  ELSE first.v \o " Details: " \o PyRepr(JDict(details))
        ELSE IF first.t = "str" THEN first.v ELSE PyRepr(first)

------------------------------------------------------------------------------
(* The request gateway: main.py:75-114.                                    *)

Statuses == {200, 302, 400, 404, 500}

Bodies ==
    { BodyErrorOnly, BodyErrorMore, BodyErrorMiddle, BodyErrorNoString,
      BodyDatabases, BodyList, BodyString, BodyHtml }

\* What client.get raises when it ends without a response (httpx; the
\* 30 s timeout of line 86 gives a ReadTimeout, whose str() is empty).
TransportCauses ==
    { [type |-> "ConnectError", message |-> "All connection attempts failed"],
      [type |-> "ReadTimeout", message |-> ""] }

\* Python's exception classes: json.JSONDecodeError derives from ValueError,
\* asyncio.CancelledError from BaseException only.
IsValueError(type) == type \in {"ValueError", "JSONDecodeError"}

IsException(type) == type # "CancelledError"

\* httpx Response.raise_for_status (main.py:103): raises unless 2xx.
is_success(status) == 200 <= status /\ status <= 299

\* main.py:86-104, the body of the try once a response has arrived.
try_response(status, text) ==
    IF status = 400
    THEN Raise("ValueError", "Datasette API error (400): " \o error_message_400(text))
    ELSE IF ~is_success(status)
    THEN [kind |-> "raise", type |-> "HTTPStatusError", message |-> "",
          status_code |-> status, text |-> text]
    ELSE json_loads(text)

\* Mutant: the generic clause comes first and takes the HTTPStatusError.
except_clauses_generic_first(operation, outcome) ==
    IF outcome.kind # "raise" THEN outcome
    ELSE IF IsValueError(outcome.type) THEN outcome
    ELSE IF IsException(outcome.type)
    THEN Raise("RuntimeError", "Error in " \o operation \o ": " \o outcome.message)
    ELSE outcome

\* Mutant: no clause re-raises ValueError, the generic clause wraps it.
except_clauses_no_reraise(operation, outcome) ==
    IF outcome.kind # "raise" THEN outcome
    ELSE IF outcome.type = "HTTPStatusError"
    THEN Raise("RuntimeError",
               "HTTP " \o ToString(outcome.status_code) \o " error in "
               \o operation \o ": " \o outcome.text)
    ELSE IF IsException(outcome.type)
    THEN Raise("RuntimeError", "Error in " \o operation \o ": " \o outcome.message)
    ELSE outcome

\* Mutant: the generic clause drops str(e).
except_clauses_no_cause(operation, outcome) ==
    IF outcome.kind # "raise" THEN outcome
    ELSE IF outcome.type = "HTTPStatusError"
    THEN Raise("RuntimeError",
               "HTTP " \o ToString(outcome.status_code) \o " error in "
               \o operation \o ": " \o outcome.text)
    ELSE IF IsValueError(outcome.type) THEN outcome
    ELSE IF IsException(outcome.type)
    THEN Raise("RuntimeError", "Error in " \o operation)
    ELSE outcome

\* main.py:106-114, the except clauses, tried in order.
except_clauses(operation, outcome) ==
    IF outcome.kind # "raise" THEN outcome
    ELSE IF outcome.type = "HTTPStatusError"
    THEN Raise("RuntimeError",
               "HTTP " \o ToString(outcome.status_code) \o " error in "
               \o operation \o ": " \o outcome.text)
    ELSE IF IsValueError(outcome.type) THEN outcome
    ELSE IF IsException(outcome.type)
    THEN Raise("RuntimeError", "Error in " \o operation \o ": " \o outcome.message)
    ELSE outcome

\* main.py:404-418, list_databases reshapes the payload; result.items() of
\* line 406 raises AttributeError when the payload is no dict.
database_entry(kv) ==
    JDict(<< <<"name", JStr(kv[1])>>,
             <<"path", Get(kv[2].v, "path")>>,
             <<"tables_count",
               IF HasKey(kv[2].v, "tables_count")
               THEN Get(kv[2].v, "tables_count") ELSE JInt(0)>>,
             <<"hidden_tables_count",
               IF HasKey(kv[2].v, "hidden_tables_count")
               THEN Get(kv[2].v, "hidden_tables_count") ELSE JInt(0)>> >>)

reshape_databases(instance, payload) ==
    IF payload.t # "dict"
    THEN Raise("AttributeError",
               "'" \o payload.t \o "' object has no attribute 'items'")
    ELSE LET kept == SelectSeq(payload.v,
                               LAMBDA kv : kv[2].t = "dict" /\ HasKey(kv[2].v, "path"))
         IN  Return(JDict(<< <<"databases",
                               JList([i \in 1..Len(kept) |-> database_entry(kept[i])])>>,
                             <<"instance", JStr(instance)>> >>))

\* The tool's own try/except (main.py:282-302, 397-428): every clause re-raises.
tool_outcome(operation, instance, outcome) ==
    IF operation = "list_databases" /\ outcome.kind = "return"
    THEN reshape_databases(instance, outcome.value)
    ELSE outcome

\* main.py:370-375, one entry of list_instances.  bool() of a missing or
\* empty token is False.
instance_entry(item) ==
    JDict(<< <<"name", JStr(item[1])>>,
             <<"url", JStr(item[2].url)>>,
             <<"description", JStr(IF "description" \in DOMAIN item[2]
                                   THEN item[2].description ELSE "")>>,
             <<"has_auth", JBool("auth_token" \in DOMAIN item[2]
                                 /\ item[2].auth_token # "")>> >>)

\* Mutant: count is the size of Config, not of the list of instances.
list_instances_counting_config(config) ==
    LET items == config.datasette_instances
    IN  JDict(<< <<"instances", JList([i \in 1..Len(items) |-> instance_entry(items[i])])>>,
                 <<"count", JInt(Cardinality(DOMAIN config))>> >>)

\* main.py:367-380, the value list_instances returns.
list_instances(config) ==
    LET items == config.datasette_instances
        instances == [i \in 1..Len(items) |-> instance_entry(items[i])]
    IN  JDict(<< <<"instances", JList(instances)>>,
                 <<"count", JInt(Len(instances))>> >>)

------------------------------------------------------------------------------
(* The courtesy throttle: main.py:51-73.                                   *)

\* Mutant: only a negative delay disables the throttle.
throttle_disabled_strict(courtesy_delay) == courtesy_delay < 0

\* main.py:59
throttle_disabled(courtesy_delay) == courtesy_delay <= 0

\* Mutant: one timestamp for all instances (the latest of any instance).
last_time_any(instance_name) ==
    IF DOMAIN last_request_time = {}
    THEN 0
    ELSE CHOOSE m \in {last_request_time[k] : k \in DOMAIN last_request_time} :
            \A k \in DOMAIN last_request_time : last_request_time[k] <= m

\* Mutant: an instance without an entry counts as requested just now.
last_time_now(instance_name) ==
    IF instance_name \in DOMAIN last_request_time
    THEN last_request_time[instance_name]
    ELSE now

\* main.py:63, _last_request_time.get(instance_name, 0)
last_time_of(instance_name) ==
    IF instance_name \in DOMAIN last_request_time
    THEN last_request_time[instance_name]
    ELSE 0

\* Mutant: the subtraction the wrong way round (asyncio.sleep of a
\* negative time returns at once).
sleep_time_negated(courtesy_delay, time_since_last) == time_since_last - courtesy_delay

\* main.py:68
sleep_time_of(courtesy_delay, time_since_last) == courtesy_delay - time_since_last

\* Mutant: the dict is replaced by one that holds the new entry alone.
record_request_alone(instance_name, time) == [k \in {instance_name} |-> time]

\* main.py:73, _last_request_time[instance_name] = time.time()
record_request(instance_name, time) ==
    [k \in DOMAIN last_request_time \cup {instance_name} |->
        IF k = instance_name THEN time ELSE last_request_time[k]]

------------------------------------------------------------------------------
(* Tool invocations.                                                       *)

\* The tools that await ctx.info between resolving the instance and the
\* request (main.py:289-290, 345-346, 446-447, 477-478, 509-510).
InfoOperations ==
    {"list_tables", "describe_database", "describe_table", "execute_sql", "search_table"}

Operations == InfoOperations \cup {"list_databases"}

NoCall == [operation |-> "", instance |-> ""]

TypeOK ==
    /\ phase \in {"starting", "running", "exited"}
    /\ now \in 0..MaxTime
    /\ pc \in [Tasks -> {"idle", "resolved", "sleeping", "inflight", "returned", "raised"}]
    /\ gets \in [Tasks -> Nat]
    /\ stamp \in [Tasks -> SUBSET (0..MaxTime)]
    /\ before \in [Tasks -> SUBSET Tasks]

\* main.py:45-48 at import, before main() runs.  The clock starts below the
\* courtesy delay (a configured delay may exceed any clock reading) and
\* Tick takes it past it.
Init ==
    /\ phase = "starting"
    /\ Config \in ConfigCandidates \cup CliConfigs
    /\ now = 0
    /\ last_request_time = << >>
    /\ pc = [t \in Tasks |-> "idle"]
    /\ call = [t \in Tasks |-> NoCall]
    /\ wake_at = [t \in Tasks |-> 0]
    /\ gets = [t \in Tasks |-> 0]
    /\ stamp = [t \in Tasks |-> {}]
    /\ before = [t \in Tasks |-> {}]
    /\ result = [t \in Tasks |-> NoResult]
    /\ response = [t \in Tasks |-> NoResult]
    /\ sent = [t \in Tasks |-> << >>]
    /\ probe = NoProbe

\* main.py:609-612: validation decides whether the server runs at all.
Startup ==
    /\ phase = "starting"
    /\ phase' = IF validate_config(Config) THEN "running" ELSE "exited"
    /\ UNCHANGED <<Config, now, last_request_time, pc, call, wake_at, gets, stamp,
                   before, result, response, sent, probe>>

\* time.time() moves on.
Tick ==
    /\ now < MaxTime
    /\ now' = now + 1
    /\ UNCHANGED <<phase, Config, last_request_time, pc, call, wake_at, gets, stamp,
                   before, result, response, sent, probe>>

\* Mutant: the resolved headers are not handed to client.get.
IssueGet_without_headers(t, c) ==
    LET instance_config == get_instance_config(Config, c.instance)
    IN  IF instance_config.kind = "raise"
        THEN /\ pc' = [pc EXCEPT ![t] = "raised"]
             /\ result' = [result EXCEPT ![t] = instance_config]
             /\ gets' = gets
             /\ UNCHANGED <<response, sent, probe>>
        ELSE /\ pc' = [pc EXCEPT ![t] = "inflight"]
             /\ result' = result
             /\ gets' = [gets EXCEPT ![t] = @ + 1]
             /\ UNCHANGED <<response, sent, probe>>

\* main.py:81-86: once apply_courtesy_delay has returned, the headers are
\* resolved (outside the try) and the GET is sent.
IssueGet(t, c) ==
    LET instance_config == get_instance_config(Config, c.instance)
    IN  IF instance_config.kind = "raise"
        THEN /\ pc' = [pc EXCEPT ![t] = "raised"]
             /\ result' = [result EXCEPT ![t] = instance_config]
             /\ gets' = gets
             /\ UNCHANGED <<response, sent, probe>>
        ELSE /\ pc' = [pc EXCEPT ![t] = "inflight"]
             /\ result' = result
             /\ gets' = [gets EXCEPT ![t] = @ + 1]
             /\ sent' = [sent EXCEPT ![t] = instance_config.value.headers]
             /\ UNCHANGED <<response, probe>>

\* main.py:78 with 51-70: make_datasette_request enters apply_courtesy_delay,
\* which returns at once, or suspends the task in asyncio.sleep.
EnterRequest(t, c) ==
    LET courtesy_delay == CourtesyDelay
        current_time == now
        last_time == last_time_of(c.instance)
        time_since_last == current_time - last_time
    IN  /\ before' = [before EXCEPT ![t] = {u \in Tasks : gets[u] > 0}]
        /\ IF throttle_disabled(courtesy_delay)
           THEN /\ UNCHANGED <<last_request_time, stamp, wake_at>>
                /\ IssueGet(t, c)
           ELSE IF time_since_last < courtesy_delay
           THEN /\ wake_at' = [wake_at EXCEPT ![t] =
                                 now + sleep_time_of(courtesy_delay, time_since_last)]
                /\ pc' = [pc EXCEPT ![t] = "sleeping"]
                /\ UNCHANGED <<last_request_time, stamp, gets, result, response, sent, probe>>
           ELSE /\ last_request_time' = record_request(c.instance, now)
                /\ stamp' = [stamp EXCEPT ![t] = @ \cup {now}]
                /\ UNCHANGED wake_at
                /\ IssueGet(t, c)

\* Task t stands for the t-th tool invocation to begin: invocations are
\* interchangeable, so they are numbered in the order in which they start.
Begins(t) == \A u \in Tasks : u < t => pc[u] # "idle"

\* Mutant: the tool does not resolve the instance before the request.
ToolCall_unresolved(t, operation, instance) ==
    LET c == [operation |-> operation, instance |-> instance]
    IN  /\ phase = "running"
        /\ pc[t] = "idle"
        /\ Begins(t)
        /\ call' = [call EXCEPT ![t] = c]
        /\ UNCHANGED <<phase, Config, now>>
        /\ IF operation \in InfoOperations
           THEN /\ pc' = [pc EXCEPT ![t] = "resolved"]
                /\ UNCHANGED <<last_request_time, wake_at, gets, stamp, before, result, response, sent, probe>>
           ELSE EnterRequest(t, c)

\* A tool is invoked (main.py:282-292, 397-402): it resolves the instance,
\* builds the URL, then reports through ctx.info or goes on to the request.
ToolCall(t, operation, instance) ==
    LET c == [operation |-> operation, instance |-> instance]
        instance_config == get_instance_config(Config, instance)
    IN  /\ phase = "running"
        /\ pc[t] = "idle"
        /\ Begins(t)
        /\ call' = [call EXCEPT ![t] = c]
        /\ UNCHANGED <<phase, Config, now>>
        /\ IF instance_config.kind = "raise"
           THEN /\ pc' = [pc EXCEPT ![t] = "raised"]
                /\ result' = [result EXCEPT ![t] = instance_config]
                /\ UNCHANGED <<last_request_time, wake_at, gets, stamp, before, response, sent, probe>>
           ELSE IF operation \in InfoOperations
           THEN /\ pc' = [pc EXCEPT ![t] = "resolved"]
                /\ UNCHANGED <<last_request_time, wake_at, gets, stamp, before, result, response, sent, probe>>
           ELSE EnterRequest(t, c)

\* ctx.info has returned: the tool calls make_datasette_request.
Request(t) ==
    /\ pc[t] = "resolved"
    /\ EnterRequest(t, call[t])
    /\ UNCHANGED <<phase, Config, now, call>>

\* Mutant: the woken caller reads the entry again and sleeps again when
\* another caller has recorded a time meanwhile.
Wake_recheck(t) ==
    /\ pc[t] = "sleeping"
    /\ now >= wake_at[t]
    /\ IF now - last_time_of(call[t].instance) < CourtesyDelay
       THEN /\ wake_at' = [wake_at EXCEPT ![t] =
                              last_time_of(call[t].instance) + CourtesyDelay]
            /\ UNCHANGED <<last_request_time, stamp, pc, result, gets, response, sent, probe>>
       ELSE /\ last_request_time' = record_request(call[t].instance, now)
            /\ stamp' = [stamp EXCEPT ![t] = @ \cup {now}]
            /\ wake_at' = [wake_at EXCEPT ![t] = 0]
            /\ IssueGet(t, call[t])
    /\ UNCHANGED <<phase, Config, now, call, before>>

\* main.py:70-86: asyncio.sleep is over; the time is recorded and the GET sent.
Wake(t) ==
    /\ pc[t] = "sleeping"
    /\ now >= wake_at[t]
    /\ last_request_time' = record_request(call[t].instance, now)
    /\ stamp' = [stamp EXCEPT ![t] = @ \cup {now}]
    /\ wake_at' = [wake_at EXCEPT ![t] = 0]
    /\ IssueGet(t, call[t])
    /\ UNCHANGED <<phase, Config, now, call, before>>

\* main.py:361-380: list_instances reads Config and returns; it awaits
\* nothing, so it is one step.
ListInstances(t) ==
    /\ phase = "running"
    /\ pc[t] = "idle"
    /\ Begins(t)
    /\ call' = [call EXCEPT ![t] = [operation |-> "list_instances", instance |-> ""]]
    /\ pc' = [pc EXCEPT ![t] = "returned"]
    /\ result' = [result EXCEPT ![t] = Return(list_instances(Config))]
    /\ UNCHANGED <<phase, Config, now, last_request_time, wake_at, gets, stamp, before,
                   response, sent, probe>>

\* Mutant: a request that fails gives its throttle entry back.
Respond_rollback(t, status, text) ==
    /\ pc[t] = "inflight"
    /\ LET outcome == tool_outcome(call[t].operation, call[t].instance,
                          except_clauses(call[t].operation, try_response(status, text)))
       IN  /\ result' = [result EXCEPT ![t] = outcome]
           /\ pc' = [pc EXCEPT ![t] = IF outcome.kind = "return" THEN "returned" ELSE "raised"]
           /\ last_request_time' =
                 IF outcome.kind = "return"
                 THEN last_request_time
                 ELSE [k \in DOMAIN last_request_time \ {call[t].instance} |->
                          last_request_time[k]]
    /\ response' = [response EXCEPT ![t] =
                       [kind |-> "response", status_code |-> status, text |-> text]]
    /\ UNCHANGED <<phase, Config, now, call, wake_at, gets, stamp, before,
                   sent, probe>>

\* main.py:86-114: the response arrives and is classified.
Respond(t, status, text) ==
    /\ pc[t] = "inflight"
    /\ LET outcome == tool_outcome(call[t].operation, call[t].instance,
                          except_clauses(call[t].operation, try_response(status, text)))
       IN  /\ result' = [result EXCEPT ![t] = outcome]
           /\ pc' = [pc EXCEPT ![t] = IF outcome.kind = "return" THEN "returned" ELSE "raised"]
    /\ response' = [response EXCEPT ![t] =
                       [kind |-> "response", status_code |-> status, text |-> text]]
    /\ UNCHANGED <<phase, Config, now, last_request_time, call, wake_at, gets, stamp, before,
                   sent, probe>>

\* Mutant: a transport failure is answered by sending the request again.
TransportFailure_retry(t, cause) ==
    /\ pc[t] = "inflight"
    /\ gets[t] < 3
    /\ gets' = [gets EXCEPT ![t] = @ + 1]
    /\ response' = [response EXCEPT ![t] = [kind |-> "failure", cause |-> cause]]
    /\ UNCHANGED <<phase, Config, now, last_request_time, pc, call, wake_at, stamp, before,
                   result, sent, probe>>

\* main.py:86, 112-114: client.get raises instead of returning a response.
TransportFailure(t, cause) ==
    /\ pc[t] = "inflight"
    /\ result' = [result EXCEPT ![t] =
                     tool_outcome(call[t].operation, call[t].instance,
                         except_clauses(call[t].operation,
                                        Raise(cause.type, cause.message)))]
    /\ pc' = [pc EXCEPT ![t] = "raised"]
    /\ response' = [response EXCEPT ![t] = [kind |-> "failure", cause |-> cause]]
    /\ UNCHANGED <<phase, Config, now, last_request_time, call, wake_at, gets, stamp, before,
                   sent, probe>>

\* The host cancels the task: CancelledError is raised at the await the
\* task is suspended in (main.py:290, 70 or 86) and passes every except.
Cancel(t) ==
    /\ pc[t] \in {"resolved", "sleeping", "inflight"}
    /\ result' = [result EXCEPT ![t] =
                     tool_outcome(call[t].operation, call[t].instance,
                         IF pc[t] = "inflight"
                         THEN except_clauses(call[t].operation, Raise("CancelledError", ""))
                         ELSE Raise("CancelledError", ""))]
    /\ pc' = [pc EXCEPT ![t] = "raised"]
    /\ UNCHANGED <<phase, Config, now, last_request_time, call, wake_at, gets, stamp,
                   before, response, sent, probe>>

CallInstances == {"a", "b", "missing"}

Responses == Statuses \X Bodies

(* Spec: concurrent invocations on the shared throttle, with one tool and  *)
(* one response of each kind of outcome.  execute_sql awaits ctx.info      *)
(* before the request; a tool that does not (list_databases) behaves as    *)
(* execute_sql does when Request follows ToolCall at once.                 *)

ThrottleOperations == {"execute_sql"}

ThrottleResponses ==
    { <<200, BodyDatabases>>, <<200, BodyHtml>>, <<500, BodyHtml>> }

ThrottleCauses == {c \in TransportCauses : c.type = "ConnectError"}

Next ==
    \/ Startup
    \/ Tick
    \/ \E t \in Tasks, operation \in ThrottleOperations, instance \in CallInstances :
          ToolCall(t, operation, instance)
    \/ \E t \in Tasks : ListInstances(t)
    \/ \E t \in Tasks : Request(t)
    \/ \E t \in Tasks : Wake(t)
    \/ \E t \in Tasks, r \in ThrottleResponses : Respond(t, r[1], r[2])
    \/ \E t \in Tasks, cause \in ThrottleCauses : TransportFailure(t, cause)
    \/ \E t \in Tasks : Cancel(t)

Spec == Init /\ [][Next]_vars

(* SpecFair: the callers of the throttle under a fair scheduler.  The clock *)
(* goes on while it can (it never goes back: Tick only adds), and the event *)
(* loop resumes a task whose asyncio.sleep is over.  The clock of the model *)
(* ends at MaxTime, so an invocation begins its request only while a full   *)
(* courtesy delay is left before that.  No invocation is cancelled.         *)

InHorizon == now + CourtesyDelay <= MaxTime

NextFair ==
    \/ Startup
    \/ Tick
    \/ \E t \in Tasks, operation \in ThrottleOperations, instance \in CallInstances :
          InHorizon /\ ToolCall(t, operation, instance)
    \/ \E t \in Tasks : InHorizon /\ Request(t)
    \/ \E t \in Tasks : Wake(t)

Fairness == WF_vars(Tick) /\ \A t \in Tasks : WF_vars(Wake(t))

SpecFair == Init /\ [][NextFair]_vars /\ Fairness

(* SpecGateway: one invocation at a time, every operation, every response. *)

NextGateway ==
    \/ Startup
    \/ Tick
    \/ \E operation \in Operations, instance \in CallInstances :
          ToolCall(1, operation, instance)
    \/ ListInstances(1)
    \/ Request(1)
    \/ Wake(1)
    \/ \E r \in Responses : Respond(1, r[1], r[2])
    \/ \E cause \in TransportCauses : TransportFailure(1, cause)
    \/ Cancel(1)

SpecGateway == Init /\ [][NextGateway]_vars

------------------------------------------------------------------------------
(* Python str operations, character by character.                          *)

endswith(s, p) == Len(s) >= Len(p) /\ SubSeq(s, Len(s) - Len(p) + 1, Len(s)) = p

\* The place of the first character c of s from place i on, or 0.
RECURSIVE find(_, _, _)
find(s, c, i) ==
    IF i > Len(s) THEN 0
    ELSE IF SubSeq(s, i, i) = c THEN i
    ELSE find(s, c, i + 1)

\* s.split(sep) for a separator of one character; split_at is given the
\* place of the first separator.
RECURSIVE split(_, _)
split_at(s, sep, i) ==
    IF i = 0 THEN <<s>>
    ELSE <<SubSeq(s, 1, i - 1)>> \o split(SubSeq(s, i + 1, Len(s)), sep)

split(s, sep) == split_at(s, sep, find(s, sep, 1))

\* sep.join(parts)
RECURSIVE join(_, _)
join(sep, parts) ==
    IF Len(parts) = 0 THEN ""
    ELSE IF Len(parts) = 1 THEN parts[1]
    ELSE parts[1] \o sep \o join(sep, Tail(parts))

------------------------------------------------------------------------------
(* urllib.parse: quote, urlencode, urljoin.                                *)

\* The characters of the model's strings that quote() may escape, with
\* their escapes; every other character used (letters, digits, '.', '_',
\* '-') is always left as it is.
PercentTable ==
    << <<" ", "%20">>, <<"/", "%2F">>, <<"?", "%3F">>, <<"#", "%23">>,
       <<"%", "%25">>, <<"&", "%26">>, <<"=", "%3D">>, <<",", "%2C">>,
       <<"+", "%2B">>, <<":", "%3A">>, <<"*", "%2A">> >>

\* quote() of one character; safe is "" or one character.
quote_char(c, safe) ==
    IF c = safe \/ ~HasKey(PercentTable, c) THEN c ELSE Get(PercentTable, c)

RECURSIVE quote(_, _)
quote(string, safe) ==
    IF Len(string) = 0 THEN ""
    ELSE quote_char(SubSeq(string, 1, 1), safe) \o quote(Tail(string), safe)

\* quote(name) as the builders call it: safe defaults to '/'.
quote_default(string) == quote(string, "/")

\* quote_plus() of one character: safe is empty and a space becomes '+'.
quote_plus_char(c) == IF c = " " THEN "+" ELSE quote_char(c, "")

RECURSIVE quote_plus(_)
quote_plus(string) ==
    IF Len(string) = 0 THEN ""
    ELSE quote_plus_char(SubSeq(string, 1, 1)) \o quote_plus(Tail(string))

\* urlencode(params) for a list of (key, value) pairs of strings
urlencode(params) ==
    join("&", [i \in 1..Len(params) |->
                  quote_plus(params[i][1]) \o "=" \o quote_plus(params[i][2])])

\* urlparse(url) of an http(s) URL without query or fragment: scheme and
\* netloc (kept together as origin), and path.  cut is the place of the
\* first '/' after the scheme, or 0.
urlparse_cut(url, scheme_len, cut) ==
    IF cut = 0 THEN [origin |-> url, path |-> ""]
    ELSE [origin |-> SubSeq(url, 1, scheme_len + cut - 1),
          path |-> SubSeq(url, scheme_len + cut, Len(url))]

urlparse_from(url, scheme_len) ==
    urlparse_cut(url, scheme_len, find(SubSeq(url, scheme_len + 1, Len(url)), "/", 1))

urlparse(url) == urlparse_from(url, IF startswith(url, "https://") THEN 8 ELSE 7)

\* urljoin: the base's last path item counts only if it is a directory.
base_parts(bparts) ==
    IF bparts[Len(bparts)] # "" THEN SubSeq(bparts, 1, Len(bparts) - 1) ELSE bparts

\* urljoin: segments[1:-1] = filter(None, segments[1:-1])
filter_inner(segments) ==
    IF Len(segments) < 3 THEN segments
    ELSE <<segments[1]>>
         \o SelectSeq(SubSeq(segments, 2, Len(segments) - 1), LAMBDA x : x # "")
         \o <<segments[Len(segments)]>>

\* urljoin: the segments of the base's path and of the relative path.
segments_of(parts, url) ==
    IF SubSeq(url, 1, 1) = "/" THEN split(url, "/")
    ELSE filter_inner(parts \o split(url, "/"))

\* urljoin: the loop that resolves '.' and '..' (popping an empty list is
\* passed over).
RECURSIVE resolve_segments(_, _)
resolve_segment(seg, rest, resolved_path) ==
    resolve_segments(rest,
        IF seg = ".." THEN SubSeq(resolved_path, 1, Len(resolved_path) - 1)
        ELSE IF seg = "." THEN resolved_path
        ELSE Append(resolved_path, seg))

resolve_segments(segments, resolved_path) ==
    IF Len(segments) = 0 THEN resolved_path
    ELSE resolve_segment(segments[1], Tail(segments), resolved_path)

\* urljoin: a last segment '.' or '..' leaves a directory.
resolved_path_of(segments) ==
    resolve_segments(segments, << >>)
    \o (IF segments[Len(segments)] \in {".", ".."} THEN <<"">> ELSE << >>)

\* urlunparse: an empty path is '/', and a path after a netloc begins with '/'.
rooted(path) ==
    IF path = "" THEN "/"
    ELSE IF SubSeq(path, 1, 1) = "/" THEN path
    ELSE "/" \o path

urljoin_parsed(b, url) ==
    b.origin
    \o rooted(join("/", resolved_path_of(segments_of(base_parts(split(b.path, "/")), url))))

\* urljoin(base, url) for a url that is a relative path (what quote()
\* leaves has no scheme, netloc, params, query or fragment).
urljoin(base, url) == IF url = "" THEN base ELSE urljoin_parsed(urlparse(base), url)

------------------------------------------------------------------------------
(* The URL builders: main.py:122-244.  An optional argument is a sequence  *)
(* of length 0 (None) or 1 (the value).                                    *)

\* main.py:122-126
build_url_with_params(base_url, params) ==
    IF Len(params) = 0 THEN base_url ELSE base_url \o "?" \o urlencode(params)

\* paths.index(path): the first place (from 1) that holds path, or 0.
RECURSIVE index(_, _, _)
index(paths, path, j) ==
    IF j > Len(paths) THEN 0
    ELSE IF paths[j] = path THEN j
    ELSE index(paths, path, j + 1)

\* main.py:135-143, the loop from the i-th path on.  paths.index(path)
\* looks the stripped path up in the paths as given (ValueError when it
\* is not among them), and only when the URL does not end with '/'.
RECURSIVE safe_url_join_from(_, _, _)
safe_url_join_indexed(url, found, paths, i) ==
    IF found = 0 THEN Raise("ValueError", "tuple.index(x): x not in tuple")
    ELSE IF found - 1 < Len(paths) - 1 THEN safe_url_join_from(url \o "/", paths, i + 1)
    ELSE safe_url_join_from(url, paths, i + 1)

safe_url_join_joined(url, path, paths, i) ==
    IF endswith(url, "/") THEN safe_url_join_from(url, paths, i + 1)
    ELSE safe_url_join_indexed(url, index(paths, path, 1), paths, i)

safe_url_join_path(url, path, paths, i) ==
    safe_url_join_joined(urljoin(url, path), path, paths, i)

safe_url_join_from(url, paths, i) ==
    IF i > Len(paths) THEN Return(url)
    ELSE safe_url_join_path(url, lstrip(paths[i], "/"), paths, i)

\* Mutant: the base URL is joined as it is given.
safe_url_join_bare(base_url, paths) == safe_url_join_from(base_url, paths, 1)

\* main.py:128-144
safe_url_join(base_url, paths) ==
    safe_url_join_from(IF endswith(base_url, "/") THEN base_url ELSE base_url \o "/",
                       paths, 1)

\* Mutant: an argument that is None is sent as an empty value.
Param_empty(key, optional) ==
    << <<key, IF Len(optional) = 1 THEN optional[1] ELSE "">> >>

\* The value of an optional argument as a list of parameters.
Param(key, optional) == IF Len(optional) = 1 THEN << <<key, optional[1]>> >> ELSE << >>

\* str() of an optional int
Str(optional) == IF Len(optional) = 1 THEN <<ToString(optional[1])>> ELSE << >>

\* `if json_columns:` / `if columns:`, an optional list that is not empty
Truthy(optional) == Len(optional) = 1 /\ Len(optional[1]) > 0

\* The builder's URL from the joined path and the parameters.
WithParams(url, params) ==
    IF url.kind = "raise" THEN url ELSE Return(build_url_with_params(url.value, params))

\* Mutant: the parameters are sent in another order (sql after _shape,
\* _size before _timelimit).
build_sql_query_url_reordered(base_url, database, sql, shape, json_columns, trace, timelimit, size, next_token) ==
    LET url == safe_url_join(base_url, <<quote_default(database) \o ".json">>)
        params == Param("_shape", shape)
                  \o << <<"sql", sql>> >>
                  \o (IF Truthy(json_columns)
                      THEN << <<"_json", join(",", json_columns[1])>> >> ELSE << >>)
                  \o (IF trace THEN << <<"_trace", "on">> >> ELSE << >>)
                  \o Param("_size", Str(size))
                  \o Param("_timelimit", Str(timelimit))
                  \o Param("_next", next_token)
    IN  WithParams(url, params)

\* main.py:146-174
build_sql_query_url(base_url, database, sql, shape, json_columns, trace, timelimit, size, next_token) ==
    LET url == safe_url_join(base_url, <<quote_default(database) \o ".json">>)
        params == << <<"sql", sql>> >>
                  \o Param("_shape", shape)
                  \o (IF Truthy(json_columns)
                      THEN << <<"_json", join(",", json_columns[1])>> >> ELSE << >>)
                  \o (IF trace THEN << <<"_trace", "on">> >> ELSE << >>)
                  \o Param("_timelimit", Str(timelimit))
                  \o Param("_size", Str(size))
                  \o Param("_next", next_token)
    IN  WithParams(url, params)

\* Mutant: the plain _search is sent whether or not a column is given.
build_search_table_url_both(base_url, database, table, search_term, search_column, columns, raw_mode, shape, size, json_columns, next_token) ==
    LET url == safe_url_join(base_url, <<quote_default(database),
                                         quote_default(table) \o ".json">>)
        params == (IF Len(search_column) = 1 /\ search_column[1] # ""
                   THEN << <<"_search_" \o search_column[1], search_term>> >>
                   ELSE << >>)
                  \o << <<"_search", search_term>> >>
                  \o (IF Truthy(columns)
                      THEN [i \in 1..Len(columns[1]) |-> <<"_col", columns[1][i]>>]
                      ELSE << >>)
                  \o (IF Len(raw_mode) = 1 /\ raw_mode[1]
                      THEN << <<"_searchmode", "raw">> >> ELSE << >>)
                  \o Param("_shape", shape)
                  \o Param("_size", Str(size))
                  \o (IF Truthy(json_columns)
                      THEN << <<"_json", join(",", json_columns[1])>> >> ELSE << >>)
                  \o Param("_next", next_token)
    IN  WithParams(url, params)

\* main.py:176-214
build_search_table_url(base_url, database, table, search_term, search_column, columns, raw_mode, shape, size, json_columns, next_token) ==
    LET url == safe_url_join(base_url, <<quote_default(database),
                                         quote_default(table) \o ".json">>)
        params == (IF Len(search_column) = 1 /\ search_column[1] # ""
                   THEN << <<"_search_" \o search_column[1], search_term>> >>
                   ELSE << <<"_search", search_term>> >>)
                  \o (IF Truthy(columns)
                      THEN [i \in 1..Len(columns[1]) |-> <<"_col", columns[1][i]>>]
                      ELSE << >>)
                  \o (IF Len(raw_mode) = 1 /\ raw_mode[1]
                      THEN << <<"_searchmode", "raw">> >> ELSE << >>)
                  \o Param("_shape", shape)
                  \o Param("_size", Str(size))
                  \o (IF Truthy(json_columns)
                      THEN << <<"_json", join(",", json_columns[1])>> >> ELSE << >>)
                  \o Param("_next", next_token)
    IN  WithParams(url, params)

\* main.py:216-218
build_list_databases_url(base_url) == safe_url_join(base_url, <<".json">>)

\* main.py:220-230
build_database_url(base_url, database, shape, size, next_token) ==
    LET url == safe_url_join(base_url, <<quote_default(database) \o ".json">>)
        params == Param("_shape", shape) \o Param("_size", Str(size))
                  \o Param("_next", next_token)
    IN  WithParams(url, params)

\* Mutant: _size=0 is put before _shape.
build_describe_table_url_size_first(base_url, database, table, shape) ==
    LET url == safe_url_join(base_url, <<quote_default(database),
                                         quote_default(table) \o ".json">>)
        params == << <<"_size", "0">> >> \o Param("_shape", shape)
    IN  WithParams(url, params)

\* main.py:232-244
build_describe_table_url(base_url, database, table, shape) ==
    LET url == safe_url_join(base_url, <<quote_default(database),
                                         quote_default(table) \o ".json">>)
        params == Param("_shape", shape) \o << <<"_size", "0">> >>
    IN  WithParams(url, params)

------------------------------------------------------------------------------
(* The URL builders of the single-file server, datasette_mcp_server.py,    *)
(* which joins with rstrip('/') and an f-string.                           *)

\* datasette_mcp_server.py:355-357
server_build_list_databases_url(base_url) == Return(rstrip(base_url, "/") \o "/.json")

\* datasette_mcp_server.py:359-369
server_build_list_tables_url(base_url, database, shape, size, next_token) ==
    LET url == rstrip(base_url, "/") \o "/" \o quote_default(database) \o ".json"
        params == Param("_shape", shape) \o Param("_size", Str(size))
                  \o Param("_next", next_token)
    IN  Return(build_url_with_params(url, params))

\* datasette_mcp_server.py:371-383
server_build_describe_table_url(base_url, database, table, shape) ==
    LET url == rstrip(base_url, "/") \o "/" \o quote_default(database)
               \o "/" \o quote_default(table) \o ".json"
        params == Param("_shape", shape) \o << <<"_size", "0">> >>
    IN  Return(build_url_with_params(url, params))

------------------------------------------------------------------------------
(* SpecPure: the pure helpers (the resolver, the URL builders) applied to  *)
(* arguments drawn from the sets below; probe holds the application, one   *)
(* in each behaviour.                                                      *)

InstanceC == [url |-> "https://c.example/datasette", auth_token |-> "",
              description |-> "third"]

\* Registries that validate_config accepts.
Registries ==
    { TwoInstances,
      << <<"b", InstanceB>>, <<"a", InstanceA>> >>,
      << <<"a", InstanceA>> >>,
      << <<"c", InstanceC>>, <<"a", InstanceA>>, <<"b", InstanceB>> >> }

ResolveNames == {"a", "b", "c", "missing", ""}

\* config.py:210-231 applied to a registry and a name.
Resolve(registry, name) ==
    LET config == [datasette_instances |-> registry]
    IN  /\ probe = NoProbe
        /\ validate_config(config)
        /\ probe' = [fn |-> "get_instance_config", config |-> config, instance |-> name,
                      out |-> get_instance_config(config, name)]
        /\ UNCHANGED <<phase, Config, now, last_request_time, pc, call, wake_at, gets,
                       stamp, before, result, response, sent>>

\* main.py:367-380 applied to a registry.
ListRegistry(registry) ==
    LET config == [datasette_instances |-> registry]
    IN  /\ probe = NoProbe
        /\ validate_config(config)
        /\ probe' = [fn |-> "list_instances", config |-> config,
                      out |-> Return(list_instances(config))]
        /\ UNCHANGED <<phase, Config, now, last_request_time, pc, call, wake_at, gets,
                       stamp, before, result, response, sent>>

\* Base URLs that validate_config accepts, and names and values for the
\* other arguments of the tools.
BaseUrls == {"https://x", "https://x/", "https://x/sub", "https://x/sub/", "http://x/sub//"}
DatabaseNames == {"db", "my db", "a/b", "..", "/db", "a?b", "t.json"}
TableNames == {"t", "my table", "x/y", "..", "a%b", "/t"}
Shapes == {<< >>, <<"array">>}
Sizes == {<< >>, <<0>>, <<10>>}
NextTokens == {<< >>, <<"a=b">>}
ColumnLists == {<< >>, << << >> >>, << <<"a", "b c">> >>}
Timelimits == {<< >>, <<100>>}
Sqls == {"select 1", "select a/b, c from t where x=1&y"}
SearchTerms == {"cats dogs", "a*"}
SearchColumns == {<< >>, <<"">>, <<"ti tle">>}
RawModes == {<< >>, <<FALSE>>, <<TRUE>>}

\* The variables other than probe.
state == <<phase, Config, now, last_request_time, pc, call, wake_at, gets, stamp,
           before, result, response, sent>>

BuildListDatabasesUrl(base_url) ==
    /\ probe = NoProbe
    /\ probe' = [fn |-> "build_list_databases_url", base_url |-> base_url,
                  out |-> build_list_databases_url(base_url)]
    /\ UNCHANGED state

BuildDatabaseUrl(base_url, database, shape, size, next_token) ==
    /\ probe = NoProbe
    /\ probe' = [fn |-> "build_database_url", base_url |-> base_url,
                  database |-> database, shape |-> shape, size |-> size,
                  next_token |-> next_token,
                  out |-> build_database_url(base_url, database, shape, size, next_token)]
    /\ UNCHANGED state

BuildDescribeTableUrl(base_url, database, table, shape) ==
    /\ probe = NoProbe
    /\ probe' = [fn |-> "build_describe_table_url", base_url |-> base_url,
                  database |-> database, table |-> table, shape |-> shape,
                  out |-> build_describe_table_url(base_url, database, table, shape)]
    /\ UNCHANGED state

BuildSqlQueryUrl(base_url, database, sql, shape, json_columns, trace, timelimit, size, next_token) ==
    /\ probe = NoProbe
    /\ probe' = [fn |-> "build_sql_query_url", base_url |-> base_url,
                  database |-> database, sql |-> sql, shape |-> shape,
                  json_columns |-> json_columns, trace |-> trace,
                  timelimit |-> timelimit, size |-> size, next_token |-> next_token,
                  out |-> build_sql_query_url(base_url, database, sql, shape,
                              json_columns, trace, timelimit, size, next_token)]
    /\ UNCHANGED state

BuildSearchTableUrl(base_url, database, table, search_term, search_column, columns, raw_mode, shape, size, json_columns, next_token) ==
    /\ probe = NoProbe
    /\ probe' = [fn |-> "build_search_table_url", base_url |-> base_url,
                  database |-> database, table |-> table, search_term |-> search_term,
                  search_column |-> search_column, columns |-> columns,
                  raw_mode |-> raw_mode, shape |-> shape, size |-> size,
                  json_columns |-> json_columns, next_token |-> next_token,
                  out |-> build_search_table_url(base_url, database, table, search_term,
                              search_column, columns, raw_mode, shape, size,
                              json_columns, next_token)]
    /\ UNCHANGED state

ServerBuildListDatabasesUrl(base_url) ==
    /\ probe = NoProbe
    /\ probe' = [fn |-> "server_build_list_databases_url", base_url |-> base_url,
                  out |-> server_build_list_databases_url(base_url)]
    /\ UNCHANGED state

ServerBuildListTablesUrl(base_url, database, shape, size, next_token) ==
    /\ probe = NoProbe
    /\ probe' = [fn |-> "server_build_list_tables_url", base_url |-> base_url,
                  database |-> database, shape |-> shape, size |-> size,
                  next_token |-> next_token,
                  out |-> server_build_list_tables_url(base_url, database, shape, size,
                                                       next_token)]
    /\ UNCHANGED state

ServerBuildDescribeTableUrl(base_url, database, table, shape) ==
    /\ probe = NoProbe
    /\ probe' = [fn |-> "server_build_describe_table_url", base_url |-> base_url,
                  database |-> database, table |-> table, shape |-> shape,
                  out |-> server_build_describe_table_url(base_url, database, table, shape)]
    /\ UNCHANGED state

\* Values of --url (main.py:535-538): URLs validation accepts, with runs of
\* punctuation, an underscore and a letter outside ASCII, and strings it
\* rejects, two of them without a letter or digit.
CliUrls ==
    { "https://a.example/", "http://localhost:8001", "https://café.example//db_1/",
      "https://x.io/a__b--c/?q=1", "ftp://a.example", "a.example", "://", "_" }

DeriveIdFromUrl(url) ==
    /\ probe = NoProbe
    /\ probe' = [fn |-> "derive_id_from_url", url |-> url,
                  out |-> Return(derive_id_from_url(url))]
    /\ UNCHANGED state

InitPure == Init /\ Config = [datasette_instances |-> TwoInstances]

NextPure ==
    \/ \E registry \in Registries, name \in ResolveNames : Resolve(registry, name)
    \/ \E base_url \in BaseUrls : BuildListDatabasesUrl(base_url)
    \/ \E url \in CliUrls : DeriveIdFromUrl(url)
    \/ \E registry \in Registries : ListRegistry(registry)
    \/ \E base_url \in BaseUrls, database \in DatabaseNames, shape \in Shapes,
          size \in Sizes, next_token \in NextTokens :
          BuildDatabaseUrl(base_url, database, shape, size, next_token)
    \/ \E base_url \in BaseUrls, database \in DatabaseNames, table \in TableNames,
          shape \in Shapes :
          BuildDescribeTableUrl(base_url, database, table, shape)
    \/ \E base_url \in BaseUrls : ServerBuildListDatabasesUrl(base_url)
    \/ \E base_url \in BaseUrls, database \in DatabaseNames, shape \in Shapes,
          size \in Sizes, next_token \in NextTokens :
          ServerBuildListTablesUrl(base_url, database, shape, size, next_token)
    \/ \E base_url \in BaseUrls, database \in DatabaseNames, table \in TableNames,
          shape \in Shapes :
          ServerBuildDescribeTableUrl(base_url, database, table, shape)
    \/ \E base_url \in {"https://x/", "https://x/sub"}, database \in {"db", "my db", "/db"},
          sql \in Sqls, shape \in Shapes, json_columns \in ColumnLists,
          trace \in BOOLEAN, timelimit \in Timelimits, size \in Sizes,
          next_token \in NextTokens :
          BuildSqlQueryUrl(base_url, database, sql, shape, json_columns, trace,
                           timelimit, size, next_token)
    \/ \E base_url \in {"https://x/", "https://x/sub"}, database \in {"db", "a/b", "t.json"},
          table \in {"t", "my table", "/t"}, search_term \in SearchTerms,
          search_column \in SearchColumns, columns \in ColumnLists,
          raw_mode \in RawModes, shape \in Shapes, size \in {<< >>, <<10>>},
          json_columns \in {<< >>, << <<"a", "b c">> >>}, next_token \in NextTokens :
          BuildSearchTableUrl(base_url, database, table, search_term, search_column,
                              columns, raw_mode, shape, size, json_columns, next_token)

SpecPure == InitPure /\ [][NextPure]_vars

------------------------------------------------------------------------------
(* Properties of the throttle (checked under Spec).                        *)

Stamped(t) == stamp[t] # {}

SameInstance(t, u) == call[t].instance = call[u].instance

\* The entry of an instance as apply_courtesy_delay sees it in this state.
Entry(instance_name) ==
    IF instance_name \in DOMAIN last_request_time
    THEN last_request_time[instance_name]
    ELSE 0

\* C1: with a positive courtesy delay d, when an acquire on an instance
\* begins after another acquire on the same instance has returned, the time
\* it records is at least d later than the time the earlier one recorded.
C1_SequentialSpacing ==
    \A t, u \in Tasks :
        (/\ CourtesyDelay > 0
         /\ u \in before[t]
         /\ SameInstance(t, u)
         /\ Stamped(t) /\ Stamped(u))
        => \A x \in stamp[t], y \in stamp[u] : x >= y + CourtesyDelay

\* A second acquire that began after the first returned, and was held back
\* until exactly d after it.
C1_Witness ==
    \E t, u \in Tasks :
        /\ CourtesyDelay > 0
        /\ u \in before[t]
        /\ SameInstance(t, u)
        /\ Stamped(t) /\ Stamped(u)
        /\ \A x \in stamp[t], y \in stamp[u] : x = y + CourtesyDelay
        /\ gets[t] > 0

\* C2 (as claimed): with a positive courtesy delay d, any two times recorded
\* for one instance are at least d apart, however the callers interleave.
C2_AnyTwoSpaced ==
    \A t, u \in Tasks :
        (/\ CourtesyDelay > 0
         /\ t # u
         /\ SameInstance(t, u)
         /\ Stamped(t) /\ Stamped(u))
        => \A x \in stamp[t], y \in stamp[u] :
              x >= y + CourtesyDelay \/ y >= x + CourtesyDelay

\* C3: a step of an invocation for instance A leaves the entry of every
\* other instance as it was, and whether and how long the invocation is
\* suspended is decided by A's own entry alone: it sleeps exactly when A's
\* entry is less than d old, and then until d after A's entry.
C3_PerInstance ==
    [][\A t \in Tasks :
          pc'[t] # pc[t] =>
             /\ \A k \in (DOMAIN last_request_time \cup DOMAIN last_request_time')
                         \ {call'[t].instance} :
                   /\ k \in DOMAIN last_request_time
                   /\ k \in DOMAIN last_request_time'
                   /\ last_request_time'[k] = last_request_time[k]
             /\ (pc[t] \in {"idle", "resolved"} /\ pc'[t] \in {"sleeping", "inflight"})
                  => /\ pc'[t] = "sleeping"
                          <=> (CourtesyDelay > 0
                               /\ now - Entry(call'[t].instance) < CourtesyDelay)
                     /\ pc'[t] = "sleeping"
                          => wake_at'[t] = Entry(call'[t].instance) + CourtesyDelay
      ]_vars

\* A request to "a" that was not suspended although "b" had been requested
\* less than d before it.
C3_Witness ==
    \E t, u \in Tasks :
        /\ CourtesyDelay > 0
        /\ call[t].instance = "a" /\ call[u].instance = "b"
        /\ u \in before[t]
        /\ Stamped(t) /\ Stamped(u)
        /\ \A x \in stamp[t], y \in stamp[u] : x < y + CourtesyDelay
        /\ wake_at[t] = 0 /\ gets[t] > 0

\* C4: with a courtesy delay of 0 or less no invocation is ever suspended
\* in the throttle and no entry of last_request_time is ever created.
C4_DisabledThrottle ==
    CourtesyDelay <= 0 =>
        /\ DOMAIN last_request_time = {}
        /\ \A t \in Tasks : pc[t] # "sleeping" /\ ~Stamped(t) /\ wake_at[t] = 0

\* Two requests to one instance, both sent, with the throttle disabled.
C4_Witness ==
    /\ CourtesyDelay <= 0
    /\ \E t, u \in Tasks : t # u /\ SameInstance(t, u) /\ gets[t] > 0 /\ gets[u] > 0

\* C5: with a positive courtesy delay, once an invocation has sent its GET
\* the instance's entry holds the time the invocation recorded (or a later
\* one), while the response is awaited and after any outcome.
C5_RecordedAtDispatch ==
    \A t \in Tasks :
        (CourtesyDelay > 0 /\ gets[t] > 0) =>
            /\ Stamped(t)
            /\ call[t].instance \in DOMAIN last_request_time
            /\ \A x \in stamp[t] : last_request_time[call[t].instance] >= x

\* A request whose GET failed with an HTTP error status, and another whose
\* response is still awaited: both entries stand.
C5_Witness ==
    \E t, u \in Tasks :
        /\ CourtesyDelay > 0
        /\ pc[t] = "raised" /\ gets[t] > 0
        /\ response[t].kind = "response" /\ response[t].status_code = 500
        /\ stamp[t] = {last_request_time[call[t].instance]}
        /\ pc[u] = "inflight"

\* C6: an invocation that fails before its GET is sent (unknown instance,
\* or cancelled before or during the throttle's sleep) has sent no GET and
\* recorded no time, and its failing leaves last_request_time as it was.
C6_FailsBeforeDispatch ==
    [][\A t \in Tasks :
          (pc[t] \in {"idle", "resolved", "sleeping"} /\ pc'[t] = "raised") =>
             /\ last_request_time' = last_request_time
             /\ gets'[t] = 0
             /\ stamp[t] = {} /\ stamp'[t] = {}
      ]_vars

\* One invocation failed on an unknown instance and another was cancelled
\* in the throttle's sleep.
C6_Witness ==
    \E t, u \in Tasks :
        /\ CourtesyDelay > 0
        /\ pc[t] = "raised" /\ call[t].instance = "missing"
        /\ result[t].type = "ValueError"
        /\ pc[u] = "raised" /\ result[u].type = "CancelledError"
        /\ wake_at[u] > 0 /\ gets[u] = 0

------------------------------------------------------------------------------
(* Properties of the response classification (checked under SpecGateway).  *)

Responded(t) == response[t].kind = "response"

\* The body is a JSON object whose only field is "error", a string.
OnlyErrorField(text) ==
    LET parsed == json_loads(text)
    IN  /\ parsed.kind = "return"
        /\ parsed.value.t = "dict"
        /\ Len(parsed.value.v) = 1
        /\ parsed.value.v[1][1] = "error"
        /\ parsed.value.v[1][2].t = "str"

ErrorField(text) == json_loads(text).value.v[1][2].v

\* C7 (as claimed): a status 400 whose body is a JSON object with only an
\* "error" field E fails with an error whose message is exactly E.
C7_MessageIsError ==
    \A t \in Tasks :
        (Responded(t) /\ response[t].status_code = 400
                      /\ OnlyErrorField(response[t].text))
        => /\ result[t].kind = "raise"
           /\ result[t].message = ErrorField(response[t].text)

\* C7 (amended): such a response fails with a ValueError whose message is
\* "Datasette API error (400): " followed by exactly E.
C7_MessageIsPrefixedError ==
    \A t \in Tasks :
        (Responded(t) /\ response[t].status_code = 400
                      /\ OnlyErrorField(response[t].text))
        => result[t] = Raise("ValueError",
                             "Datasette API error (400): "
                             \o ErrorField(response[t].text))

\* A status 400 with body {"error": "no such table: foo"} has been classified.
C7_Witness ==
    \E t \in Tasks :
        /\ Responded(t) /\ response[t].status_code = 400
        /\ response[t].text = BodyErrorOnly
        /\ pc[t] = "raised"

\* The form of the error raised for an HTTP error status (RemoteHttpError).
IsHttpError(r) ==
    /\ r.kind = "raise"
    /\ r.type = "RuntimeError"
    /\ startswith(r.message, "HTTP ")

\* C8: a response with a status of 400 or more other than 400 fails with
\* RuntimeError "HTTP <status> error in <operation>: <raw body>" and returns
\* no payload; no status 400 and no transport failure gives an error of
\* that form.
C8_HttpError ==
    \A t \in Tasks :
        /\ (Responded(t) /\ response[t].status_code >= 400
                         /\ response[t].status_code # 400)
           => /\ pc[t] = "raised"
              /\ result[t] = Raise("RuntimeError",
                                   "HTTP " \o ToString(response[t].status_code)
                                   \o " error in " \o call[t].operation
                                   \o ": " \o response[t].text)
        /\ IsHttpError(result[t])
           => Responded(t) /\ response[t].status_code # 400

\* A status 404 has been classified.
C8_Witness ==
    \E t \in Tasks :
        /\ Responded(t) /\ response[t].status_code = 404
        /\ response[t].text = BodyHtml
        /\ IsHttpError(result[t])

\* C9: a 2xx response whose body is not valid JSON fails with a
\* json.JSONDecodeError (the DecodeError), and nothing else does: not a
\* status 400, not an unknown instance, not a transport failure.
C9_DecodeError ==
    \A t \in Tasks :
        /\ (Responded(t) /\ is_success(response[t].status_code)
                         /\ json_loads(response[t].text).kind = "raise")
           => /\ pc[t] = "raised"
              /\ result[t].kind = "raise"
              /\ result[t].type = "JSONDecodeError"
        /\ (result[t].kind = "raise" /\ result[t].type = "JSONDecodeError")
           => /\ Responded(t)
              /\ is_success(response[t].status_code)
        /\ (result[t].kind = "raise" /\ ~Responded(t))
           => result[t].type \in {"ValueError", "RuntimeError", "CancelledError"}

\* A status 200 with an HTML body has been classified.
C9_Witness ==
    \E t \in Tasks :
        /\ Responded(t) /\ response[t].status_code = 200
        /\ response[t].text = BodyHtml
        /\ result[t].kind = "raise"
        /\ result[t].type = "JSONDecodeError"

\* C10: when client.get ends without a response, the invocation fails with
\* RuntimeError "Error in <operation>: <str of the cause>" and returns no
\* payload.
C10_TransportError ==
    \A t \in Tasks :
        response[t].kind = "failure"
        => /\ pc[t] = "raised"
           /\ result[t] = Raise("RuntimeError",
                                "Error in " \o call[t].operation \o ": "
                                \o response[t].cause.message)

\* A connection failure has been classified.
C10_Witness ==
    \E t \in Tasks :
        /\ response[t].kind = "failure"
        /\ response[t].cause.type = "ConnectError"
        /\ pc[t] = "raised"
        /\ result[t].type = "RuntimeError"

------------------------------------------------------------------------------
(* Properties of the tool invocations (checked under SpecGateway).         *)

Ended(t) == pc[t] \in {"returned", "raised"}

\* C11: an invocation issues at most one GET, whatever became of it (a 400,
\* another error status, a transport failure, an undecodable body: the
\* request is not sent again), and list_instances issues none.
C11_AtMostOneGet ==
    \A t \in Tasks :
        /\ gets[t] <= 1
        /\ call[t].operation = "list_instances" => gets[t] = 0

\* An invocation whose GET failed in transport has ended with that one GET.
C11_Witness ==
    \E t \in Tasks :
        /\ pc[t] = "raised" /\ gets[t] = 1
        /\ response[t].kind = "failure"

\* What make_datasette_request made of what client.get gave task t.
GatewayOutcome(t) ==
    except_clauses(call[t].operation,
                   IF response[t].kind = "failure"
                   THEN Raise(response[t].cause.type, response[t].cause.message)
                   ELSE try_response(response[t].status_code, response[t].text))

Cancelled(t) == pc[t] = "raised" /\ result[t].type = "CancelledError"

\* An invocation that ends returns or raises.  When it returns, the gateway
\* returned (no error was turned into a result), and for the five tools
\* that forward the payload the result is the decoded body as it is.  When
\* it raises, the error is the resolver's or the gateway's, type and message.
PayloadOrGatewayError(t) ==
    Ended(t) /\ ~Cancelled(t) /\ call[t].operation # "list_instances" =>
        \/ /\ pc[t] = "returned"
           /\ Responded(t)
           /\ GatewayOutcome(t).kind = "return"
           /\ call[t].operation \in InfoOperations
                 => result[t] = json_loads(response[t].text)
        \/ /\ pc[t] = "raised"
           /\ \/ result[t] = get_instance_config(Config, call[t].instance)
              \/ /\ response[t] # NoResult
                 /\ result[t] = GatewayOutcome(t)

\* list_databases was given a decoded payload that is no JSON object.
ReshapeFailed(t) ==
    /\ call[t].operation = "list_databases"
    /\ Responded(t) /\ is_success(response[t].status_code)
    /\ json_loads(response[t].text).kind = "return"
    /\ json_loads(response[t].text).value.t # "dict"

\* C12: every invocation ends with the decoded payload (unmodified for the
\* five forwarding tools) or with the one error of the resolver or of the
\* gateway; no tool turns an error into a result.
C12_PayloadOrGatewayError == \A t \in Tasks : PayloadOrGatewayError(t)

\* Where C12 fails: list_databases raises an AttributeError of its own.
C12_ButForListDatabases ==
    \A t \in Tasks :
        \/ PayloadOrGatewayError(t)
        \/ ReshapeFailed(t) /\ pc[t] = "raised" /\ result[t].type = "AttributeError"

\* C14: the headers of the GET hold Authorization: Bearer <token> exactly
\* when the instance's configuration has an auth_token, with that token,
\* and hold no other header.
C14_AuthorizationHeader ==
    \A t \in Tasks :
        gets[t] > 0 =>
            LET instance_config == Get(Config.datasette_instances, call[t].instance)
                headers == {sent[t][i] : i \in 1..Len(sent[t])}
            IN  /\ Len(sent[t]) = Cardinality(headers)
                /\ "auth_token" \in DOMAIN instance_config
                      <=> \E h \in headers : h[1] = "Authorization"
                /\ \A h \in headers :
                      h = <<"Authorization", "Bearer " \o instance_config.auth_token>>

\* A GET was sent for the instance that has a token.
C14_Witness ==
    \E t \in Tasks :
        /\ gets[t] = 1 /\ call[t].instance = "a"
        /\ sent[t] = << <<"Authorization", "Bearer secret">> >>

\* A GET was sent for the instance that has none.
C14_WitnessNoToken ==
    \E t \in Tasks : gets[t] = 1 /\ call[t].instance = "b" /\ sent[t] = << >>

\* The value v lists the instances of Config, one entry each, in order.
ListsTheRegistry(v) ==
    LET items == Config.datasette_instances
        entries == Get(v.v, "instances").v
    IN  /\ Keys(v.v) = <<"instances", "count">>
        /\ Len(entries) = Len(items)
        /\ \A i \in 1..Len(items) :
              /\ Get(entries[i].v, "name") = JStr(items[i][1])
              /\ Get(entries[i].v, "url") = JStr(items[i][2].url)
        /\ Get(v.v, "count") = JInt(Len(entries))

\* C15 (checked under Spec): the step that runs list_instances returns one
\* entry per instance of the registry, in its order, and their number as
\* count; it sends no GET, does not touch the throttle and leaves the
\* throttle state and the registry as they were.
C15_ListInstancesFrame ==
    [][\A t \in Tasks :
          call[t] = NoCall /\ call'[t].operation = "list_instances" =>
              /\ pc'[t] = "returned"
              /\ result'[t].kind = "return" /\ ListsTheRegistry(result'[t].value)
              /\ gets' = gets /\ gets[t] = 0
              /\ stamp' = stamp /\ stamp[t] = {}
              /\ wake_at' = wake_at
              /\ last_request_time' = last_request_time
              /\ Config' = Config]_vars

\* list_instances has returned after another invocation went through the
\* throttle.
C15_Witness ==
    \E t, u \in Tasks :
        /\ call[t].operation = "list_instances" /\ pc[t] = "returned"
        /\ u < t /\ stamp[u] # {}

------------------------------------------------------------------------------
(* Properties of the resolver (checked under SpecPure).                    *)

\* The configured names as Python prints the list of them.
ExpectedAvailable(registry) ==
    CASE Len(registry) = 1 -> "['a']"
      [] Len(registry) = 2 /\ registry[1][1] = "a" -> "['a', 'b']"
      [] Len(registry) = 2 /\ registry[1][1] = "b" -> "['b', 'a']"
      [] Len(registry) = 3 -> "['c', 'a', 'b']"

\* C13: resolving a name that is no key of the registry fails with a
\* ValueError that lists the configured names, each once, in insertion
\* order; resolving a key returns that instance's base URL.
C13_Resolve ==
    probe.fn = "get_instance_config" =>
        LET registry == probe.config.datasette_instances
            matches == {i \in 1..Len(registry) : registry[i][1] = probe.instance}
        IN  IF matches = {}
            THEN probe.out = Raise("ValueError",
                                   "Unknown instance '" \o probe.instance
                                   \o "'. Available: " \o ExpectedAvailable(registry))
            ELSE /\ probe.out.kind = "return"
                 /\ \A i \in matches : probe.out.value.url = registry[i][2].url

\* An unknown name was resolved against a registry of three instances.
C13_Witness ==
    /\ probe.fn = "get_instance_config"
    /\ Len(probe.config.datasette_instances) = 3
    /\ probe.instance = "missing"
    /\ probe.out.kind = "raise"

------------------------------------------------------------------------------
(* Properties of the URL builders (checked under SpecPure).                *)

IsBuilder(p) ==
    p.fn \notin {"", "get_instance_config", "derive_id_from_url", "list_instances"}

InPackage(p) == IsBuilder(p) /\ ~startswith(p.fn, "server_")

HasDatabase(p) == "database" \in DOMAIN p

HasTable(p) == "table" \in DOMAIN p

\* The builder of the application p applied to another base URL.
Built(p, base_url) ==
    CASE p.fn = "build_list_databases_url" -> build_list_databases_url(base_url)
      [] p.fn = "build_database_url" ->
            build_database_url(base_url, p.database, p.shape, p.size, p.next_token)
      [] p.fn = "build_describe_table_url" ->
            build_describe_table_url(base_url, p.database, p.table, p.shape)
      [] p.fn = "build_sql_query_url" ->
            build_sql_query_url(base_url, p.database, p.sql, p.shape, p.json_columns,
                                p.trace, p.timelimit, p.size, p.next_token)
      [] p.fn = "build_search_table_url" ->
            build_search_table_url(base_url, p.database, p.table, p.search_term,
                                   p.search_column, p.columns, p.raw_mode, p.shape,
                                   p.size, p.json_columns, p.next_token)
      [] p.fn = "server_build_list_databases_url" -> server_build_list_databases_url(base_url)
      [] p.fn = "server_build_list_tables_url" ->
            server_build_list_tables_url(base_url, p.database, p.shape, p.size, p.next_token)
      [] p.fn = "server_build_describe_table_url" ->
            server_build_describe_table_url(base_url, p.database, p.table, p.shape)

\* The URL up to the query string, and the query string.
UrlPath(url) == split(url, "?")[1]

UrlQuery(url) == IF Len(split(url, "?")) > 1 THEN split(url, "?")[2] ELSE ""

\* The segments of the URL's path, after the leading '/'.
PathSegments(url) == Tail(split(urlparse(UrlPath(url)).path, "/"))

\* A name that is one path segment as it stands.
PlainName(name) == Len(split(name, "/")) = 1 /\ name \notin {"", ".", ".."}

PlainNames(p) ==
    /\ HasDatabase(p) => PlainName(p.database)
    /\ HasTable(p) => PlainName(p.table)

\* The path the names of p are to be found at: each after one '/'.
JoinedPath(p) ==
    rstrip(p.base_url, "/")
    \o (IF HasDatabase(p) THEN "/" \o quote_default(p.database) ELSE "/")
    \o (IF HasTable(p) THEN "/" \o quote_default(p.table) ELSE "")
    \o ".json"

RECURSIVE unquote(_)
unquote(string) ==
    LET escaped == {i \in 1..Len(PercentTable) :
                       startswith(string, PercentTable[i][2])}
    IN  IF Len(string) = 0 THEN ""
        ELSE IF escaped # {}
        THEN PercentTable[CHOOSE i \in escaped : TRUE][1]
             \o unquote(SubSeq(string, 4, Len(string)))
        ELSE SubSeq(string, 1, 1) \o unquote(Tail(string))

\* The names the application p was given, in the order of the path.
Names(p) ==
    (IF HasDatabase(p) THEN <<p.database>> ELSE << >>)
    \o (IF HasTable(p) THEN <<p.table>> ELSE << >>)

\* The path segments of the URL that follow those of the base URL.
AddedSegments(p) ==
    LET base == SelectSeq(PathSegments(p.base_url), LAMBDA x : x # "")
        segments == PathSegments(p.out.value)
    IN  SubSeq(segments, Len(base) + 1, Len(segments))

\* A segment without the ".json" the last one ends with.
WithoutJson(segment) ==
    IF endswith(segment, ".json") THEN SubSeq(segment, 1, Len(segment) - 5) ELSE segment

\* Each name is one path segment of the URL, and decoding that segment
\* (less the ".json" of the last) gives the name.
RoundTrips(p) ==
    /\ p.out.kind = "return"
    /\ Len(AddedSegments(p)) = Len(Names(p))
    /\ \A i \in 1..Len(Names(p)) :
          unquote(IF i = Len(Names(p)) THEN WithoutJson(AddedSegments(p)[i])
                  ELSE AddedSegments(p)[i]) = Names(p)[i]

\* C17: every database or table name, whatever its characters, is encoded
\* as one path segment that decodes to the name, so the number of segments
\* added to the base does not depend on the name.
C17_NameRoundTrips ==
    IsBuilder(probe) /\ HasDatabase(probe) => RoundTrips(probe)

\* The two paths handed to safe_url_join are the same string, so that
\* paths.index finds the second one at the place of the first.
SamePaths(p) ==
    /\ InPackage(p) /\ HasTable(p)
    /\ quote_default(p.database) = quote_default(p.table) \o ".json"

\* What holds instead: names that hold no '/' and are not '..' round-trip,
\* unless the database is named as the table's ".json".
C17_PlainNamesRoundTrip ==
    IsBuilder(probe) /\ HasDatabase(probe) /\ PlainNames(probe) /\ ~SamePaths(probe)
        => RoundTrips(probe)

\* The keys of the URL's query string, in order.
QueryKeys(url) ==
    IF UrlQuery(url) = "" THEN << >>
    ELSE LET pairs == split(UrlQuery(url), "&")
         IN  [i \in 1..Len(pairs) |-> split(pairs[i], "=")[1]]

\* The values of the URL's query string, in order, still encoded.
QueryValues(url) ==
    IF UrlQuery(url) = "" THEN << >>
    ELSE LET pairs == split(UrlQuery(url), "&")
         IN  [i \in 1..Len(pairs) |-> join("=", Tail(split(pairs[i], "=")))]

\* The optional arguments of the tools and the query keys they are sent as.
OptionalKeys ==
    << <<"shape", "_shape">>, <<"size", "_size">>, <<"next_token", "_next">>,
       <<"json_columns", "_json">>, <<"trace", "_trace">>, <<"timelimit", "_timelimit">>,
       <<"columns", "_col">>, <<"raw_mode", "_searchmode">> >>

\* The caller of p did not supply the argument: the builder does not take
\* it, or it has its default (None; False for trace).
NotSupplied(p, argument) ==
    \/ argument \notin DOMAIN p
    \/ IF argument = "trace" THEN p[argument] = FALSE ELSE p[argument] = << >>

Occurs(key, keys) == \E i \in 1..Len(keys) : keys[i] = key

\* C18: an optional argument that is not supplied leaves no key in the URL
\* (but for the _size=0 of describe_table), and a URL without parameters
\* has no '?'.
C18_OmittedWhenNotSupplied ==
    IsBuilder(probe) /\ probe.out.kind = "return" =>
        LET url == probe.out.value
            keys == QueryKeys(url)
            fixed == IF probe.fn \in {"build_describe_table_url",
                                      "server_build_describe_table_url"}
                     THEN {"_size"} ELSE {}
        IN  /\ \A i \in 1..Len(OptionalKeys) :
                  NotSupplied(probe, OptionalKeys[i][1]) /\ OptionalKeys[i][2] \notin fixed
                      => ~Occurs(OptionalKeys[i][2], keys)
            /\ Len(split(url, "?")) <= 2
            /\ Len(keys) = 0 <=> Len(split(url, "?")) = 1
            /\ \A i \in 1..Len(keys) : keys[i] # ""
            /\ (\A i \in 1..Len(OptionalKeys) : NotSupplied(probe, OptionalKeys[i][1]))
                  => keys \in {<< >>, <<"sql">>, <<"_size">>, <<"_search">>,
                               <<"_search_ti+tle">>}

\* list_tables' URL when nothing optional is supplied: no '?'.
C18_Witness ==
    /\ probe.fn = "build_database_url"
    /\ probe.base_url = "https://x/sub" /\ probe.database = "db"
    /\ probe.shape = << >> /\ probe.size = << >> /\ probe.next_token = << >>
    /\ probe.out = Return("https://x/sub/db.json")

\* C19: the URL of describe_table has _size once, with the value 0, as its
\* last parameter.
C19_SizeZeroLast ==
    /\ probe.fn \in {"build_describe_table_url", "server_build_describe_table_url"}
    /\ probe.out.kind = "return"
    => LET keys == QueryKeys(probe.out.value)
           values == QueryValues(probe.out.value)
       IN  /\ Len(keys) >= 1
           /\ keys[Len(keys)] = "_size" /\ values[Len(keys)] = "0"
           /\ Cardinality({i \in 1..Len(keys) : keys[i] = "_size"}) = 1
           /\ endswith(probe.out.value, "_size=0")

\* describe_table's URL when a shape is given.
C19_Witness ==
    /\ probe.fn = "build_describe_table_url"
    /\ probe.shape = <<"array">>
    /\ probe.out = Return("https://x/sub/db/t.json?_shape=array&_size=0")

\* urllib.parse.unquote_plus: '+' is a space.
RECURSIVE unquote_plus(_)
unquote_plus(string) ==
    LET escaped == {i \in 1..Len(PercentTable) :
                       startswith(string, PercentTable[i][2])}
    IN  IF Len(string) = 0 THEN ""
        ELSE IF escaped # {}
        THEN PercentTable[CHOOSE i \in escaped : TRUE][1]
             \o unquote_plus(SubSeq(string, 4, Len(string)))
        ELSE IF SubSeq(string, 1, 1) = "+" THEN " " \o unquote_plus(Tail(string))
        ELSE SubSeq(string, 1, 1) \o unquote_plus(Tail(string))

\* The parameters execute_sql is to send after sql, in the fixed order;
\* a list of no columns and a trace of False send nothing.
SqlParameters(p) ==
    (IF p.shape # << >> THEN << <<"_shape", p.shape[1]>> >> ELSE << >>)
    \o (IF Truthy(p.json_columns)
        THEN << <<"_json", join(",", p.json_columns[1])>> >> ELSE << >>)
    \o (IF p.trace THEN << <<"_trace", "on">> >> ELSE << >>)
    \o (IF p.timelimit # << >> THEN << <<"_timelimit", ToString(p.timelimit[1])>> >> ELSE << >>)
    \o (IF p.size # << >> THEN << <<"_size", ToString(p.size[1])>> >> ELSE << >>)
    \o (IF p.next_token # << >> THEN << <<"_next", p.next_token[1]>> >> ELSE << >>)

\* C20: the URL of execute_sql is {base}/{database}.json?sql=<encoded sql>
\* and then the optional parameters that were supplied, in the order
\* _shape, _json, _trace, _timelimit, _size, _next; sql is always there and
\* first.  For "https://x/", "db", "select 1" and shape "array" it is
\* https://x/db.json?sql=select+1&_shape=array.
C20_SqlFirstFixedOrder ==
    probe.fn = "build_sql_query_url" /\ probe.out.kind = "return" =>
        LET url == probe.out.value
            keys == QueryKeys(url)
            values == QueryValues(url)
            expected == << <<"sql", probe.sql>> >> \o SqlParameters(probe)
        IN  /\ PlainName(probe.database) => UrlPath(url) = JoinedPath(probe)
            /\ Len(keys) = Len(expected)
            /\ \A i \in 1..Len(expected) :
                  /\ keys[i] = expected[i][1]
                  /\ unquote_plus(values[i]) = expected[i][2]
            /\ /\ probe.base_url = "https://x/" /\ probe.database = "db"
               /\ probe.sql = "select 1" /\ Len(expected) = 2
               /\ probe.shape = <<"array">>
               => url = "https://x/db.json?sql=select+1&_shape=array"

\* execute_sql's URL when every optional parameter is supplied.
C20_Witness ==
    /\ probe.fn = "build_sql_query_url"
    /\ probe.out = Return("https://x/db.json?sql=select+1&_shape=array&_json=a%2Cb+c"
                          \o "&_trace=on&_timelimit=100&_size=0&_next=a%3Db")

\* The example of C20.
C20_WitnessExample ==
    /\ probe.fn = "build_sql_query_url"
    /\ probe.json_columns = << >> /\ probe.size = << >>
    /\ probe.out = Return("https://x/db.json?sql=select+1&_shape=array")

\* The key of a search parameter: _search or _search_<column>.
IsSearchKey(key) == key = "_search" \/ startswith(key, "_search_")

\* C21: the URL of search_table has one search parameter, the first one:
\* _search_<column> when a column (a name that is not empty) is given,
\* _search otherwise; it has _searchmode=raw when raw_mode is true and no
\* _searchmode when raw_mode is false or absent.
C21_OneSearchParameter ==
    probe.fn = "build_search_table_url" /\ probe.out.kind = "return" =>
        LET keys == QueryKeys(probe.out.value)
            values == QueryValues(probe.out.value)
            given == probe.search_column # << >> /\ probe.search_column[1] # ""
            modes == {i \in 1..Len(keys) : keys[i] = "_searchmode"}
        IN  /\ Len(keys) >= 1
            /\ unquote_plus(keys[1]) =
                  IF given THEN "_search_" \o probe.search_column[1] ELSE "_search"
            /\ unquote_plus(values[1]) = probe.search_term
            /\ \A i \in 2..Len(keys) : ~IsSearchKey(unquote_plus(keys[i]))
            /\ IF probe.raw_mode = <<TRUE>>
               THEN Cardinality(modes) = 1 /\ \A i \in modes : values[i] = "raw"
               ELSE modes = {}

\* search_table's URL for a column and raw mode.
C21_Witness ==
    /\ probe.fn = "build_search_table_url"
    /\ probe.columns = << >> /\ probe.shape = << >> /\ probe.size = << >>
    /\ probe.out = Return("https://x/db/t.json?_search_ti+tle=cats+dogs&_searchmode=raw")

-----------------------------------------------------------------------------
(* Properties of the instance id derived from a URL.                        *)

\* The string s has a character of [a-zA-Z0-9].
HasAlnum(s) == \E i \in 1..Len(s) : SubSeq(s, i, i) \in AsciiAlnum

\* An id: one leading underscore, then a name of letters, digits and single
\* underscores that is not empty and does not end with an underscore.
IdentifierSafe(id) ==
    /\ Len(id) >= 2
    /\ SubSeq(id, 1, 1) = "_" /\ SubSeq(id, 2, 2) # "_"
    /\ \A i \in 1..Len(id) : SubSeq(id, i, i) \in AsciiAlnum \cup {"_"}
    /\ \A i \in 1..(Len(id) - 1) : SubSeq(id, i, i + 1) # "__"
    /\ SubSeq(id, Len(id), Len(id)) # "_"

\* C22 as stated: the id derived from every URL string is identifier-safe.
C22_DerivedIdOfAnyString ==
    probe.fn = "derive_id_from_url" => IdentifierSafe(probe.out.value)

\* C22: the id derived from a URL string that has an ASCII letter or digit
\* (every URL that validation accepts has one) starts with exactly one
\* underscore, has only ASCII letters, digits and underscores, has no two
\* underscores in a row, does not end with an underscore and has a character
\* after the leading underscore; a string without a letter or digit gives
\* the bare underscore.
C22_DerivedId ==
    probe.fn = "derive_id_from_url" =>
        /\ probe.out.kind = "return"
        /\ IF HasAlnum(probe.url) THEN IdentifierSafe(probe.out.value)
                                  ELSE probe.out.value = "_"
        /\ (startswith(probe.url, "http://") \/ startswith(probe.url, "https://"))
              => HasAlnum(probe.url)

\* The id of a URL with runs of punctuation and a letter outside ASCII.
C22_Witness ==
    /\ probe.fn = "derive_id_from_url"
    /\ probe.url = "https://café.example//db_1/"
    /\ probe.out = Return("_https_caf_example_db_1")

-----------------------------------------------------------------------------
(* Properties of startup (checked under SpecGateway).                       *)

\* What a Registry is to be: an instance at least, a base URL of http or
\* https for each, and a courtesy delay, if there is one, that is not negative.
WellFormed(config) ==
    /\ "datasette_instances" \in DOMAIN config
    /\ Len(config.datasette_instances) >= 1
    /\ \A i \in 1..Len(config.datasette_instances) :
          LET instance == config.datasette_instances[i][2]
          IN  /\ "url" \in DOMAIN instance
              /\ Len(instance.url) > 0
              /\ SubSeq(instance.url, 1, 7) = "http://"
                 \/ SubSeq(instance.url, 1, 8) = "https://"
    /\ "courtesy_delay_seconds" \in DOMAIN config
          => ~(config.courtesy_delay_seconds < 0)

\* No tool has been invoked.
NoInvocation ==
    \A t \in Tasks : pc[t] = "idle" /\ call[t] = NoCall /\ gets[t] = 0

\* C23: once startup has succeeded, from a file or from the command line,
\* the Registry is well formed; a configuration that is not well formed
\* makes startup fail, with no tool invoked before or after; and no step
\* changes the Registry.
C23_ValidatedRegistry ==
    /\ [](phase = "running" => WellFormed(Config))
    /\ [](~WellFormed(Config) => phase # "running" /\ NoInvocation)
    /\ [][phase = "starting" /\ phase' # "starting" =>
              phase' = IF WellFormed(Config) THEN "running" ELSE "exited"]_vars
    /\ [][phase = "exited" => phase' = "exited"]_vars
    /\ [][Config' = Config]_vars

\* Single-instance mode has started and a tool has answered for its instance.
C23_Witness ==
    /\ phase = "running"
    /\ Config \in CliConfigs
    /\ InstanceNames = <<"a">>
    /\ call[1] = [operation |-> "describe_table", instance |-> "a"]
    /\ pc[1] = "returned"

\* File mode has started and a tool has answered.
C23_WitnessFile ==
    /\ phase = "running"
    /\ Config \in ConfigCandidates
    /\ pc[1] = "returned"

\* Startup has failed.
C23_WitnessExited ==
    phase = "exited" /\ Config \in CliConfigs /\ ~WellFormed(Config)

-----------------------------------------------------------------------------
(* Properties of the status 400 message (checked under SpecGateway).        *)

\* The body is no JSON object: no JSON at all, or a list, a string, a number.
NoJsonObject(text) ==
    json_loads(text).kind = "raise" \/ json_loads(text).value.t # "dict"

\* A status 400 has come for invocation t with a body that is no JSON object.
BadRequestNoObject(t) ==
    Responded(t) /\ response[t].status_code = 400 /\ NoJsonObject(response[t].text)

\* C24 (as claimed): a status 400 whose body is no JSON object fails with
\* an error whose message is the raw body text.
C24_MessageIsRawBody ==
    \A t \in Tasks :
        BadRequestNoObject(t) =>
            result[t].kind = "raise" /\ result[t].message = response[t].text

\* C24 (amended): such a response fails with a ValueError, and no other
\* error, whose message is "Datasette API error (400): " followed by the
\* raw body text.
C24_MessageIsPrefixedRawBody ==
    \A t \in Tasks :
        BadRequestNoObject(t) =>
            /\ pc[t] = "raised"
            /\ result[t] = Raise("ValueError",
                                 "Datasette API error (400): " \o response[t].text)

\* A status 400 with an HTML body and one with a JSON list have been classified.
C24_Witness ==
    /\ Responded(1) /\ response[1].status_code = 400
    /\ response[1].text = BodyHtml
    /\ pc[1] = "raised"

C24_WitnessList ==
    /\ Responded(1) /\ response[1].status_code = 400
    /\ response[1].text \in {BodyList, BodyString}
    /\ pc[1] = "raised"

\* The body is a JSON object with an "error" field.
HasErrorField(text) ==
    /\ json_loads(text).kind = "return"
    /\ json_loads(text).value.t = "dict"
    /\ HasKey(json_loads(text).value.v, "error")

\* The fields of the body other than "error", in the body's order.
OtherFields(text) ==
    LET items == json_loads(text).value.v
        others == {i \in 1..Len(items) : items[i][1] # "error"}
    IN  SelectSeq([i \in 1..Len(items) |-> IF i \in others THEN <<items[i]>> ELSE << >>],
                  LAMBDA x : x # << >>)

\* str() of the "error" value.
ErrorText(text) ==
    LET value == Get(json_loads(text).value.v, "error")
    IN  IF value.t = "str" THEN value.v ELSE PyRepr(value)

\* The error value followed by the detail part, which is there when the
\* body has other fields and holds them all.
ErrorThenDetails(text) ==
    LET others == OtherFields(text)
    IN  ErrorText(text)
        \o (IF Len(others) = 0 THEN ""
            ELSE " Details: " \o PyRepr(JDict([i \in 1..Len(others) |-> others[i][1]])))

\* C25: for a status 400 whose body is a JSON object with an "error" field,
\* the message ends with the error value followed by the detail part, which
\* is present exactly when the body has a field besides "error" and holds
\* exactly those fields.
C25_ErrorThenDetails ==
    \A t \in Tasks :
        (Responded(t) /\ response[t].status_code = 400
                      /\ HasErrorField(response[t].text))
        => /\ result[t].kind = "raise"
           /\ endswith(result[t].message, ErrorThenDetails(response[t].text))

\* What holds of C25: when the "error" value is a string, the message is
\* "Datasette API error (400): ", the value, and the detail part; when it
\* is no string and there are other fields, it is the raw body.
C25_StringErrorThenDetails ==
    \A t \in Tasks :
        (Responded(t) /\ response[t].status_code = 400
                      /\ HasErrorField(response[t].text))
        => result[t] = Raise("ValueError",
                             "Datasette API error (400): "
                             \o IF \/ Get(json_loads(response[t].text).value.v, "error").t = "str"
                                   \/ Len(OtherFields(response[t].text)) = 0
                                THEN ErrorThenDetails(response[t].text)
                                ELSE response[t].text)

\* A body whose "error" field lies between two others has been classified.
C25_WitnessDetails ==
    /\ Responded(1) /\ response[1].status_code = 400
    /\ response[1].text = BodyErrorMiddle
    /\ result[1].kind = "raise"
    /\ result[1].message = "Datasette API error (400): bad sql Details: {'ok': False, 'status': 400}"

-----------------------------------------------------------------------------
(* Properties of the URL of a table (checked under SpecPure).               *)

\* The application p builds the URL of a table.
IsTableBuilder(p) == p.fn \in {"build_describe_table_url", "build_search_table_url"}

\* A name with a segment that urljoin resolves away.
HasDotSegment(name) ==
    \E i \in 1..Len(split(name, "/")) : split(name, "/")[i] \in {".", ".."}

\* C26: for every database name D and table name T (names with a "." or
\* ".." segment apart), the URL of describe_table and of search_table is
\* built, and its path is the base, "/", enc(D), "/", enc(T) and ".json",
\* with nothing after ".json".
C26_TablePath ==
    IsTableBuilder(probe) /\ ~HasDotSegment(probe.database) /\ ~HasDotSegment(probe.table)
        => /\ probe.out.kind = "return"
           /\ UrlPath(probe.out.value) = JoinedPath(probe)

\* What holds of C26: names that are path segments as they stand give that
\* path, unless the database is named as the table's ".json", which gives
\* the path with a "/" after it; a name that begins with "/" gives no URL,
\* or, when the table's name without the "/" names the database so, another path.
C26_PlainTablePath ==
    IsTableBuilder(probe) =>
        /\ PlainNames(probe) /\ ~SamePaths(probe) =>
              /\ probe.out.kind = "return"
              /\ UrlPath(probe.out.value) = JoinedPath(probe)
        /\ PlainNames(probe) /\ SamePaths(probe) =>
              /\ probe.out.kind = "return"
              /\ UrlPath(probe.out.value) = JoinedPath(probe) \o "/"
        /\ startswith(probe.database, "/") \/ startswith(probe.table, "/") =>
              \/ probe.out = Raise("ValueError", "tuple.index(x): x not in tuple")
              \/ /\ probe.out.kind = "return"
                 /\ UrlPath(probe.out.value) # JoinedPath(probe)
                 /\ quote_default(probe.database) = lstrip(quote_default(probe.table), "/") \o ".json"

\* The URLs of a database named as the table's ".json" and of a table
\* whose name begins with "/".
C26_WitnessSamePaths ==
    /\ probe.fn = "build_search_table_url"
    /\ probe.database = "t.json" /\ probe.table = "t"
    /\ probe.out.kind = "return"
    /\ startswith(probe.out.value, "https://x/t.json/t.json/?_search")

C26_WitnessLeadingSlash ==
    /\ probe.fn = "build_describe_table_url"
    /\ probe.database = "db" /\ probe.table = "/t"
    /\ probe.out.kind = "raise"

-----------------------------------------------------------------------------
(* Properties of has_auth (checked under SpecPure).                         *)

\* The headers of a request to the instance named name (main.py:81-86).
RequestHeaders(config, name) == get_instance_config(config, name).value.headers

CarriesAuthorization(config, name) ==
    \E i \in 1..Len(RequestHeaders(config, name)) :
        RequestHeaders(config, name)[i][1] = "Authorization"

\* The entries of the value list_instances returned.
Entries(p) == Get(p.out.value.v, "instances").v

\* C27: list_instances reports has_auth = true for an instance exactly when
\* a request to that instance carries an Authorization header.
C27_HasAuthIffHeader ==
    probe.fn = "list_instances" =>
        \A i \in 1..Len(Entries(probe)) :
            Get(Entries(probe)[i].v, "has_auth") = JBool(TRUE)
                <=> CarriesAuthorization(probe.config, Get(Entries(probe)[i].v, "name").v)

\* What holds of C27: has_auth is true exactly when the instance has a
\* token that is not empty, and the header is sent exactly when it has a
\* token, empty or not.
C27_HasAuthIffTokenNotEmpty ==
    probe.fn = "list_instances" =>
        \A i \in 1..Len(Entries(probe)) :
            LET name == Get(Entries(probe)[i].v, "name").v
                instance == Get(probe.config.datasette_instances, name)
            IN  /\ Get(Entries(probe)[i].v, "has_auth") = JBool(TRUE)
                      <=> "auth_token" \in DOMAIN instance /\ instance.auth_token # ""
                /\ CarriesAuthorization(probe.config, name)
                      <=> "auth_token" \in DOMAIN instance

\* list_instances has listed an instance whose token is the empty string.
C27_WitnessEmptyToken ==
    /\ probe.fn = "list_instances"
    /\ \E i \in 1..Len(probe.config.datasette_instances) :
          /\ probe.config.datasette_instances[i][2] = InstanceC
          /\ Get(Entries(probe)[i].v, "has_auth") = JBool(FALSE)
          /\ RequestHeaders(probe.config, "c") = << <<"Authorization", "Bearer ">> >>

-----------------------------------------------------------------------------
(* Properties of the throttle under fairness (checked under SpecFair).      *)

Suspended(t) == pc[t] = "sleeping"

\* C28: every caller suspended in apply_courtesy_delay is resumed and goes
\* on to its request, whoever else calls on the same or on other instances;
\* a caller is suspended once at most, when it enters, and then for a time
\* that is more than 0 and at most the courtesy delay.
C28_AcquireReturns ==
    /\ \A t \in Tasks : Suspended(t) ~> (pc[t] = "inflight" /\ gets[t] = 1)
    /\ [][\A t \in Tasks :
            /\ (~Suspended(t) /\ Suspended(t)') =>
                  /\ pc[t] \in {"idle", "resolved"}
                  /\ wake_at'[t] > now /\ wake_at'[t] <= now + CourtesyDelay
            /\ Suspended(t) => wake_at'[t] \in {wake_at[t], 0}
            /\ (Suspended(t) /\ ~Suspended(t)') =>
                  /\ now >= wake_at[t]
                  /\ pc'[t] = "inflight"
            /\ pc[t] = "inflight" => pc'[t] = "inflight"
      ]_vars

\* Two callers on one instance have gone on at the same time, one courtesy
\* delay after the start: the one that recorded last had entered before
\* that time (at that time it would have found the other's entry) and so
\* was suspended and resumed.
C28_Witness ==
    \E t, u \in Tasks :
        /\ t # u /\ SameInstance(t, u)
        /\ CourtesyDelay > 0
        /\ pc[t] = "inflight" /\ pc[u] = "inflight"
        /\ stamp[t] = {CourtesyDelay} /\ stamp[u] = {CourtesyDelay}

\* Two callers on one instance are suspended at once.
C28_WitnessSuspended ==
    \E t, u \in Tasks :
        t # u /\ SameInstance(t, u) /\ Suspended(t) /\ Suspended(u)

-----------------------------------------------------------------------------
(* Properties of the entries of the throttle (checked under Spec).          *)

\* The names of the instances of the Registry, as a set.
RegistryNames == {InstanceNames[i] : i \in 1..Len(InstanceNames)}

\* A request for instance k has been dispatched.
Dispatched(k) == \E t \in Tasks : call[t].instance = k /\ gets[t] > 0

\* C29: every instance that has an entry in last_request_time is an
\* instance of the Registry; a step that creates the entry of an instance
\* dispatches a request to it, the first one; and no step removes an entry.
C29_EntriesOfRegistry ==
    /\ [](DOMAIN last_request_time # {} => DOMAIN last_request_time \subseteq RegistryNames)
    /\ [][\A k \in DOMAIN last_request_time' \ DOMAIN last_request_time :
            /\ ~Dispatched(k)
            /\ \E t \in Tasks : /\ call'[t].instance = k
                                 /\ gets[t] = 0 /\ gets'[t] = 1
                                 /\ pc'[t] = "inflight"
      ]_vars
    /\ [][DOMAIN last_request_time \subseteq DOMAIN last_request_time']_vars

\* An instance has its entry, and an invocation for an unknown instance
\* has failed and left none.
C29_Witness ==
    /\ DOMAIN last_request_time = {"a"}
    /\ \E t, u \in Tasks :
          /\ call[t].instance = "a" /\ gets[t] = 1
          /\ call[u].instance = "missing" /\ pc[u] = "raised"

\* Two instances have their entries.
C29_WitnessTwoEntries == DOMAIN last_request_time = {"a", "b"}

\* Invocation t enters apply_courtesy_delay in this step.
Enters(t) == pc[t] \in {"idle", "resolved"} /\ pc'[t] \in {"sleeping", "inflight"}

\* C30: a request to an instance without an entry is dispatched at once
\* when the clock reads at least the courtesy delay d (and is suspended
\* until d when it reads less: no entry counts as a dispatch at time 0);
\* a request that comes d or more after the time of the instance's entry
\* is dispatched at once.
C30_NotSuspended ==
    [][\A t \in Tasks :
          Enters(t) =>
             LET k == call'[t].instance
             IN  /\ (k \notin DOMAIN last_request_time /\ now >= CourtesyDelay)
                      => pc'[t] = "inflight" /\ gets'[t] = 1 /\ wake_at'[t] = 0
                 /\ (k \notin DOMAIN last_request_time /\ now < CourtesyDelay)
                      => pc'[t] = "sleeping" /\ wake_at'[t] = CourtesyDelay
                 /\ (k \in DOMAIN last_request_time
                        /\ now >= last_request_time[k] + CourtesyDelay)
                      => pc'[t] = "inflight" /\ gets'[t] = 1 /\ wake_at'[t] = 0
      ]_vars

\* The request of t to "a" is the only one to "a" and was sent; t entered
\* after u's request to "b" was sent, at the courtesy delay or later: the
\* clock read at least d, "a" had no entry, and t was not suspended.
C30_Witness ==
    \E t, u \in Tasks :
        /\ CourtesyDelay > 0
        /\ call[t].instance = "a" /\ call[u].instance = "b"
        /\ u \in before[t]
        /\ \E y \in stamp[u] : y >= CourtesyDelay
        /\ gets[t] = 1 /\ wake_at[t] = 0

\* A second request to "a" that entered after the first was sent, a
\* quarter of a second being the delay.
C30_WitnessQuarter ==
    \E t, u \in Tasks :
        /\ CourtesyDelay = 1
        /\ SameInstance(t, u) /\ u \in before[t]
        /\ gets[t] = 1 /\ gets[u] = 1

====
